---- MODULE Spec2Model ----
(***************************************************************************)
(* The per-peer task of the server-side proxy (src/src/proxy/              *)
(* server_proxy.rs): the proxy_server select loop and the ServerProxyState *)
(* phase machine WaitingForWorld -> DownloadingWorld -> Done with its      *)
(* block-window downloader and finalize_world.                             *)
(*                                                                         *)
(* Packets are byte sequences (sequences of 0..255).  The game's wire      *)
(* format lives in crate::factorio_protocol, which is not among the        *)
(* sources; its codecs are modelled from the specification (section 6):    *)
(* a one-byte packet type, u32 fields little-endian, fixed-width records.  *)
(***************************************************************************)
EXTENDS Integers, Sequences, FiniteSets, TLC

(***************************************************************************)
(* Bounds of the model.                                                    *)
(***************************************************************************)
\* announced world sizes 0..MaxWorldSize (plus one world larger than the window)
MaxWorldSize == 3
\* announced auxiliary sizes 0..MaxAuxSize
MaxAuxSize == 1
\* packets held during a download, beyond the triggering one
MaxHeld == 2
\* blocks accepted while downloading the world that is larger than the window
MaxBigAccepted == 2
\* response/request drops the network may inject (stall scenario)
MaxDrops == 2
\* UDP packets of the game client that reach the client-side peer task
MaxClientArrivals == 2
\* block ids 0..MaxRequestId the game client asks for
MaxRequestId == 1
\* bytes of reconstructed world the client-side peer task receives
MaxWorldBuffer == 4
\* UDP packets of game clients that reach the client-side dispatcher
MaxDispatchArrivals == 4
\* datagrams of the tunnel sent and not yet read
MaxInFlight == 1
\* QUIC connections that reach the server endpoint
MaxConnections == 2
\* packets a connection's peer tasks hold in out_packets, not yet sent
MaxPending == 2
\* chunks of the world description the client-side stream task works through
MaxChunks == 4

(***************************************************************************)
(* Program constants.                                                      *)
(***************************************************************************)
\* ServerProxyState::INFLIGHT_BLOCK_REQUEST_LIMIT
INFLIGHT_BLOCK_REQUEST_LIMIT == 16
\* Duration::from_millis(100) of the stall check
STALL_MILLIS == 100
\* crate::factorio_protocol::TRANSFER_BLOCK_SIZE (503 in the game); the model
\* uses two-byte blocks so that whole worlds fit in a few blocks
TRANSFER_BLOCK_SIZE == 2
\* crate::proxy::UDP_QUEUE_SIZE (e.g. 256); the model uses queues of two packets
UDP_QUEUE_SIZE == 2
\* WORLD_DATA_TIMEOUT of client_proxy.rs, in seconds
WORLD_DATA_TIMEOUT == 60
\* u32::MAX, the last value of next_peer_id (scaled)
PEER_ID_MAX == 2
\* u32::MAX for the sizes, block counts and offsets of a world (2^32 - 1 in
\* the program); the model uses six-bit values, which leaves the worlds of
\* the downloader far inside the range and keeps every size enumerable
U32_MAX == 63
\* the batch size passed to get_chunks_batched (512, scaled)
MAX_BATCH == 2
\* the source addresses of the game clients
PeerAddrs == {"a1", "a2"}
\* the values of a peer id
PeerIds == 0 .. PEER_ID_MAX
\* no entry in addr_to_queue
NoPeer == 0 - 1
\* the QUIC connections of tunnel clients
ConnIds == 1 .. MaxConnections
\* crate::factorio_protocol::PacketType discriminants
PacketType_ConnectionAcceptOrDeny == 5
PacketType_ServerToClientHeartbeat == 7
PacketType_TransferBlockRequest == 12
PacketType_TransferBlock == 13

(***************************************************************************)
(* Byte-sequence helpers.                                                  *)
(***************************************************************************)
Min(S) == CHOOSE x \in S : \A y \in S : x <= y
Max(S) == CHOOSE x \in S : \A y \in S : x >= y

\* bytes[from..to) with 0-based offsets, as Rust's slice(from..to)
Slice(bytes, from, to) == SubSeq(bytes, from + 1, to)

RECURSIVE Concat(_)
\* the concatenation of a sequence of byte sequences
Concat(seqs) ==
    IF seqs = <<>> THEN <<>> ELSE Head(seqs) \o Concat(Tail(seqs))

\* u32 little-endian
U32LE(n) ==
    << n % 256, (n \div 256) % 256, (n \div (256 ^ 2)) % 256, (n \div (256 ^ 3)) % 256 >>

ReadU32LE(bytes, at) ==
    bytes[at + 1] + 256 * bytes[at + 2] + (256 ^ 2) * bytes[at + 3] + (256 ^ 3) * bytes[at + 4]

(***************************************************************************)
(* crate::factorio_protocol codecs (modelled from the specification).      *)
(***************************************************************************)
\* MapReadyForDownloadData::encode: world_size, aux_size, world_crc as u32,
\* then the fields the proxy retains verbatim (one opaque byte here)
MapReadyForDownloadData_encode(info) ==
    U32LE(info.world_size) \o U32LE(info.aux_size) \o U32LE(info.world_crc) \o << info.opaque >>

MapReadyLen == Len(MapReadyForDownloadData_encode(
                   [world_size |-> 0, aux_size |-> 0, world_crc |-> 0, opaque |-> 0]))

MapReadyForDownloadData_decode(bytes, at) ==
    [world_size |-> ReadU32LE(bytes, at),
     aux_size   |-> ReadU32LE(bytes, at + 4),
     world_crc  |-> ReadU32LE(bytes, at + 8),
     opaque     |-> bytes[at + 13]]

\* FactorioPacketHeader::decode: the packet type byte, then the message
FactorioPacketHeader_decode(packet) ==
    IF Len(packet) >= 1
    THEN [ok |-> TRUE, packet_type |-> packet[1], msg_data |-> Tail(packet)]
    ELSE [ok |-> FALSE, packet_type |-> 0, msg_data |-> <<>>]

\* TransferBlockPacket::decode: block_id, then the block's data
TransferBlockPacket_decode(msg_data) ==
    IF Len(msg_data) >= 4
    THEN [ok |-> TRUE, block_id |-> ReadU32LE(msg_data, 0),
          data |-> Slice(msg_data, 4, Len(msg_data))]
    ELSE [ok |-> FALSE, block_id |-> 0, data |-> <<>>]

TransferBlockPacket_encode_full_packet(block_id, data) ==
    << PacketType_TransferBlock >> \o U32LE(block_id) \o data

TransferBlockRequestPacket_encode_full_packet(block_id) ==
    << PacketType_TransferBlockRequest >> \o U32LE(block_id)

\* ServerToClientHeartbeatPacket::decode followed by try_decode_map_ready:
\* "err" (truncated), "none" (no record), "some" (a MapReadyForDownload record)
ServerToClientHeartbeatPacket_map_ready(msg_data) ==
    IF Len(msg_data) = 0 THEN [kind |-> "err"]
    ELSE IF msg_data[1] = 0 THEN [kind |-> "none"]
    ELSE IF Len(msg_data) < 1 + MapReadyLen THEN [kind |-> "err"]
    ELSE [kind |-> "some", world_info |-> MapReadyForDownloadData_decode(msg_data, 1)]

HeartbeatPacket(info) ==
    << PacketType_ServerToClientHeartbeat, 1 >> \o MapReadyForDownloadData_encode(info)

(***************************************************************************)
(* crate::dedup::deconstruct_world (modelled from the specification,       *)
(* section 4.2): an error for a malformed archive, otherwise a description *)
(* whose world_size is the reconstructed size and whose reconstructed_crc  *)
(* is the CRC of the reconstruction.  The archive format is not modelled:  *)
(* the outcome is the caller's choice among DedupChoices.                  *)
(***************************************************************************)
CrcValues == {1, 2}

DedupChoices ==
    {[ok |-> FALSE, grow |-> 0, crc |-> 1]}
        \cup [ok : {TRUE}, grow : {0, 4}, crc : CrcValues]

deconstruct_world(world_data, aux_data, choice) ==
    [ok |-> choice.ok,
     world_description |->
         [world_size |-> Len(world_data) + choice.grow,
          original_world_size |-> Len(world_data),
          reconstructed_crc |-> choice.crc]]

(***************************************************************************)
(* ServerProxyState (server_proxy.rs).  self is [phase, state, comp_stream]*)
(* where state is the DownloadingWorldState of phase DownloadingWorld and  *)
(* NoState in the other phases; comp_stream is TRUE while it is Some.      *)
(* last_block_elapsed stands for state.last_block_time.elapsed(), in ms.   *)
(***************************************************************************)
NoWorldInfo == [world_size |-> 0, aux_size |-> 0, world_crc |-> 0, opaque |-> 0]

NoState ==
    [world_info |-> NoWorldInfo, world_block_count |-> 0, held_packets |-> <<>>,
     received_blocks |-> <<>>, block_request_queue |-> {},
     inflight_block_requests |-> {}, last_block_elapsed |-> 0]

\* the locals of finalize_world, kept for inspection after it returned
NoDescription == [world_size |-> 0, original_world_size |-> 0, reconstructed_crc |-> 0]

NoFin ==
    [outcome |-> "none", world_info |-> NoWorldInfo, received_blocks |-> <<>>,
     blocks |-> <<>>, received_data |-> <<>>, world_data |-> <<>>, aux_data |-> <<>>,
     world_description |-> NoDescription, new_world_info |-> NoWorldInfo]

ServerProxyState_new == [phase |-> "WaitingForWorld", state |-> NoState, comp_stream |-> TRUE]

OutPacket(data, dir) == [data |-> data, dir |-> dir]

\* u32 arithmetic: the value a build without overflow checks computes, and
\* whether the operation overflows (a build with overflow checks panics)
u32_add(a, b) == [value |-> (a + b) % (U32_MAX + 1), overflow |-> a + b > U32_MAX]
u32_sub(a, b) == [value |-> (a - b) % (U32_MAX + 1), overflow |-> a < b]
u32_mul(a, b) == [value |-> (a * b) % (U32_MAX + 1), overflow |-> a * b > U32_MAX]

\* (size + TRANSFER_BLOCK_SIZE - 1) / TRANSFER_BLOCK_SIZE, in u32
BlockCount(size) ==
    u32_sub(u32_add(size, TRANSFER_BLOCK_SIZE).value, 1).value \div TRANSFER_BLOCK_SIZE

\* whether one of the u32 operations of lines 230-233 overflows
block_counts_overflow(world_info) ==
    \/ \E size \in {world_info.world_size, world_info.aux_size} :
           \/ u32_add(size, TRANSFER_BLOCK_SIZE).overflow
           \/ u32_sub(u32_add(size, TRANSFER_BLOCK_SIZE).value, 1).overflow
    \/ u32_add(BlockCount(world_info.world_size), BlockCount(world_info.aux_size)).overflow

\* finalize_world, lines 280 and 290: world_block_count * TRANSFER_BLOCK_SIZE
\* and aux_data_offset + aux_size, in u32
aux_data_range(state) ==
    LET offset == u32_mul(state.world_block_count, TRANSFER_BLOCK_SIZE)
        end == u32_add(offset.value, state.world_info.aux_size)
    IN [offset |-> offset.value, end |-> end.value,
        overflow |-> offset.overflow \/ end.overflow]

RECURSIVE request_next_blocks_off_by_one(_, _)
request_next_blocks_off_by_one(state, out_packets) ==
    IF Cardinality(state.inflight_block_requests) <= INFLIGHT_BLOCK_REQUEST_LIMIT
       /\ state.block_request_queue # {}
    THEN LET block_id == Min(state.block_request_queue)
         IN request_next_blocks_off_by_one(
                [state EXCEPT !.block_request_queue = @ \ {block_id},
                              !.inflight_block_requests = @ \cup {block_id}],
                Append(out_packets,
                       OutPacket(TransferBlockRequestPacket_encode_full_packet(block_id),
                                 "ToServer")))
    ELSE [state |-> state, out_packets |-> out_packets]

RECURSIVE request_next_blocks(_, _)
\* while inflight.len() < LIMIT { pop_first the queue, insert, push a request }
request_next_blocks(state, out_packets) ==
    IF Cardinality(state.inflight_block_requests) < INFLIGHT_BLOCK_REQUEST_LIMIT
       /\ state.block_request_queue # {}
    THEN LET block_id == Min(state.block_request_queue)
         IN request_next_blocks(
                [state EXCEPT !.block_request_queue = @ \ {block_id},
                              !.inflight_block_requests = @ \cup {block_id}],
                Append(out_packets,
                       OutPacket(TransferBlockRequestPacket_encode_full_packet(block_id),
                                 "ToServer")))
    ELSE [state |-> state, out_packets |-> out_packets]

transition_to_downloading_world(self, in_packet_data, world_info, out_packets) ==
    LET world_block_count == BlockCount(world_info.world_size)
        aux_block_count == BlockCount(world_info.aux_size)
        total_block_count == u32_add(world_block_count, aux_block_count).value
        state == [world_info |-> world_info,
                  world_block_count |-> world_block_count,
                  held_packets |-> << in_packet_data >>,
                  received_blocks |-> <<>>,
                  block_request_queue |-> 0 .. (total_block_count - 1),
                  inflight_block_requests |-> {},
                  last_block_elapsed |-> 0]
        next == request_next_blocks(state, out_packets)
    IN [self |-> [self EXCEPT !.phase = "DownloadingWorld", !.state = next.state],
        out_packets |-> next.out_packets, fin |-> NoFin, spawn |-> FALSE]

RECURSIVE InsertByKey(_, _)
\* block inserted after every element whose block_id is not larger (stable)
InsertByKey(sorted, block) ==
    IF sorted = <<>> THEN << block >>
    ELSE IF Head(sorted).block_id <= block.block_id
         THEN << Head(sorted) >> \o InsertByKey(Tail(sorted), block)
         ELSE << block >> \o sorted

\* the blocks left in arrival order
sort_by_key_skipped(blocks) == blocks

RECURSIVE sort_by_key(_)
\* received_blocks.sort_by_key(|block| block.block_id): a stable sort
sort_by_key(blocks) ==
    IF blocks = <<>> THEN <<>>
    ELSE InsertByKey(sort_by_key(SubSeq(blocks, 1, Len(blocks) - 1)), blocks[Len(blocks)])

\* packet.windows(needle.len()).position(|w| w == needle); -1 for None
Position(packet, needle) ==
    LET found == {pos \in 0 .. (Len(packet) - Len(needle)) :
                     SubSeq(packet, pos + 1, pos + Len(needle)) = needle}
    IN IF found = {} THEN -1 ELSE Min(found)

\* the rewritten copy is built and then not used
RewriteHeldPacket_copy_dropped(held_packet_data, old_world_info_encoded, new_world_info_encoded) ==
    held_packet_data

\* new_packet_data[pos..pos + old.len()].copy_from_slice(&new)
RewriteHeldPacket(held_packet_data, old_world_info_encoded, new_world_info_encoded) ==
    LET pos == Position(held_packet_data, old_world_info_encoded)
    IN IF pos = -1 THEN held_packet_data
       ELSE [i \in 1 .. Len(held_packet_data) |->
                IF i > pos /\ i <= pos + Len(old_world_info_encoded)
                THEN new_world_info_encoded[i - pos]
                ELSE held_packet_data[i]]

\* finalize_world, lines 283-286 and 303-306: log, enter Done, return
abort_finalize_spawning(self, out_packets, locals) ==
    [self |-> [self EXCEPT !.phase = "Done", !.state = NoState, !.comp_stream = FALSE],
     out_packets |-> out_packets, fin |-> locals, spawn |-> TRUE]

abort_finalize(self, out_packets, locals) ==
    [self |-> [self EXCEPT !.phase = "Done", !.state = NoState],
     out_packets |-> out_packets, fin |-> locals, spawn |-> FALSE]

\* finalize_world, lines 310-314
compose_new_world_info(world_info, world_description) ==
    [world_info EXCEPT !.world_size = world_description.world_size,
                       !.world_crc = world_description.reconstructed_crc]

finalize_world(self, out_packets, choice) ==
    LET state == self.state
        blocks == sort_by_key(state.received_blocks)
        received_data == Concat([i \in 1 .. Len(blocks) |-> blocks[i].data])
        aux_data_offset == aux_data_range(state).offset
        fin0 == [NoFin EXCEPT !.world_info = state.world_info,
                              !.received_blocks = state.received_blocks,
                              !.blocks = blocks, !.received_data = received_data]
    IN IF Len(received_data) < aux_data_offset + state.world_info.aux_size
       THEN abort_finalize(self, out_packets,
                           [fin0 EXCEPT !.outcome = "length_check_failed"])
       ELSE
         LET world_data == Slice(received_data, 0, state.world_info.world_size)
             aux_data == Slice(received_data, aux_data_offset, aux_data_range(state).end)
             result == deconstruct_world(world_data, aux_data, choice)
             fin1 == [fin0 EXCEPT !.world_data = world_data, !.aux_data = aux_data]
         IN IF ~result.ok
            THEN abort_finalize(self, out_packets,
                                [fin1 EXCEPT !.outcome = "deconstruct_failed"])
            ELSE
              LET new_world_info ==
                      compose_new_world_info(state.world_info, result.world_description)
                  old_world_info_encoded == MapReadyForDownloadData_encode(state.world_info)
                  new_world_info_encoded == MapReadyForDownloadData_encode(new_world_info)
                  forwarded ==
                      [i \in 1 .. Len(state.held_packets) |->
                          OutPacket(RewriteHeldPacket(state.held_packets[i],
                                                      old_world_info_encoded,
                                                      new_world_info_encoded),
                                    "ToClient")]
              IN [self |-> [self EXCEPT !.phase = "Done", !.state = NoState,
                                        !.comp_stream = FALSE],
                  out_packets |-> out_packets \o forwarded,
                  fin |-> [fin1 EXCEPT !.outcome = "ok",
                                       !.world_description = result.world_description,
                                       !.new_world_info = new_world_info],
                  spawn |-> TRUE]

RECURSIVE SetToSeq(_)
\* the elements of a BTreeSet in iteration (ascending) order
SetToSeq(S) ==
    IF S = {} THEN <<>> ELSE << Min(S) >> \o SetToSeq(S \ {Min(S)})

\* a stall check that never finds the download stalled
resend_inflight_never(self, out_packets) ==
    [self |-> self, out_packets |-> out_packets, fin |-> NoFin, spawn |-> FALSE]

\* on_packet_from_server, lines 204-211: the stall check that ends the
\* DownloadingWorld arm
resend_inflight_if_stalled(self, out_packets) ==
    IF self.state.last_block_elapsed > STALL_MILLIS
    THEN LET ids == SetToSeq(self.state.inflight_block_requests)
             resent == [i \in 1 .. Len(ids) |->
                           OutPacket(TransferBlockRequestPacket_encode_full_packet(ids[i]),
                                     "ToServer")]
             next == request_next_blocks(self.state, out_packets \o resent)
         IN [self |-> [self EXCEPT !.state = next.state],
             out_packets |-> next.out_packets, fin |-> NoFin, spawn |-> FALSE]
    ELSE [self |-> self, out_packets |-> out_packets, fin |-> NoFin, spawn |-> FALSE]

\* the block is pushed to received_blocks whether or not its id was removed
\* from one of the two sets
on_transfer_block_stored_always(self, msg_data, out_packets, choice) ==
    LET transfer_block == TransferBlockPacket_decode(msg_data)
        state == self.state
        block_id == transfer_block.block_id
        removed ==
            IF block_id \in state.inflight_block_requests
            THEN [state EXCEPT !.inflight_block_requests = @ \ {block_id}]
            ELSE [state EXCEPT !.block_request_queue = @ \ {block_id}]
        stored ==
            [removed EXCEPT
                !.received_blocks =
                    Append(@, [block_id |-> block_id, data |-> transfer_block.data]),
                !.last_block_elapsed = 0]
    IN IF ~transfer_block.ok
       THEN [self |-> self, out_packets |-> out_packets, fin |-> NoFin, spawn |-> FALSE]
       ELSE IF stored.block_request_queue = {} /\ stored.inflight_block_requests = {}
            THEN finalize_world([self EXCEPT !.state = stored], out_packets, choice)
            ELSE LET next == request_next_blocks(stored, out_packets)
                 IN resend_inflight_if_stalled([self EXCEPT !.state = next.state],
                                               next.out_packets)

\* on_packet_from_server, lines 182-198: a packet whose type is TransferBlock
on_transfer_block(self, msg_data, out_packets, choice) ==
    LET transfer_block == TransferBlockPacket_decode(msg_data)
        state == self.state
        block_id == transfer_block.block_id
        removed ==
            IF block_id \in state.inflight_block_requests
            THEN [state EXCEPT !.inflight_block_requests = @ \ {block_id}]
            ELSE [state EXCEPT !.block_request_queue = @ \ {block_id}]
        accepted == block_id \in state.inflight_block_requests
                        \/ block_id \in state.block_request_queue
        stored ==
            IF accepted
            THEN [removed EXCEPT
                     !.received_blocks =
                         Append(@, [block_id |-> block_id, data |-> transfer_block.data]),
                     !.last_block_elapsed = 0]
            ELSE removed
    IN IF ~transfer_block.ok
       THEN [self |-> self, out_packets |-> out_packets, fin |-> NoFin, spawn |-> FALSE]
       ELSE IF stored.block_request_queue = {} /\ stored.inflight_block_requests = {}
            THEN finalize_world([self EXCEPT !.state = stored], out_packets, choice)
            ELSE LET next == request_next_blocks(stored, out_packets)
                 IN resend_inflight_if_stalled([self EXCEPT !.state = next.state],
                                               next.out_packets)

\* on_packet_from_server, line 218: out_packets.push((in_packet_data, ToClient))
forward_to_client_twice(self, in_packet_data, out_packets) ==
    [self |-> self,
     out_packets |-> out_packets \o << OutPacket(in_packet_data, "ToClient"),
                                       OutPacket(in_packet_data, "ToClient") >>,
     fin |-> NoFin, spawn |-> FALSE]

forward_to_client(self, in_packet_data, out_packets) ==
    [self |-> self,
     out_packets |-> Append(out_packets, OutPacket(in_packet_data, "ToClient")),
     fin |-> NoFin, spawn |-> FALSE]

\* on_packet_from_server, lines 163-177
waiting_for_world_arm(self, in_packet_data, out_packets) ==
    LET header == FactorioPacketHeader_decode(in_packet_data)
        result == ServerToClientHeartbeatPacket_map_ready(header.msg_data)
    IN IF header.ok /\ header.packet_type = PacketType_ServerToClientHeartbeat
          /\ result.kind = "some"
       THEN transition_to_downloading_world(self, in_packet_data, result.world_info,
                                            out_packets)
       ELSE forward_to_client(self, in_packet_data, out_packets)

\* on_packet_from_server, lines 178-214
downloading_world_arm(self, in_packet_data, out_packets, choice) ==
    LET header == FactorioPacketHeader_decode(in_packet_data)
    IN IF header.ok
       THEN IF header.packet_type = PacketType_TransferBlock
            THEN on_transfer_block(self, header.msg_data, out_packets, choice)
            ELSE resend_inflight_if_stalled(
                     [self EXCEPT !.state.held_packets = Append(@, in_packet_data)],
                     out_packets)
       ELSE resend_inflight_if_stalled(self, out_packets)

\* a Done arm that falls into the WaitingForWorld arm
done_arm_restarts(self, in_packet_data, out_packets) ==
    waiting_for_world_arm(self, in_packet_data, out_packets)

\* on_packet_from_server, lines 215-218
done_arm(self, in_packet_data, out_packets) ==
    forward_to_client(self, in_packet_data, out_packets)

on_packet_from_server(self, in_packet_data, out_packets, choice) ==
    CASE self.phase = "WaitingForWorld" ->
             waiting_for_world_arm(self, in_packet_data, out_packets)
      [] self.phase = "DownloadingWorld" ->
             downloading_world_arm(self, in_packet_data, out_packets, choice)
      [] self.phase = "Done" ->
             done_arm(self, in_packet_data, out_packets)

(***************************************************************************)
(* The packets the game server may send.  World bytes are 100 + offset,    *)
(* auxiliary bytes 200 + offset; a block is sent either padded to          *)
(* TRANSFER_BLOCK_SIZE with zero bytes or, the last block of a region,     *)
(* short (only the region's remaining bytes).                              *)
(***************************************************************************)
BigWorldSize == INFLIGHT_BLOCK_REQUEST_LIMIT * TRANSFER_BLOCK_SIZE + 1

WorldInfos ==
    [world_size : (0 .. MaxWorldSize) \cup {BigWorldSize}, aux_size : 0 .. MaxAuxSize,
     world_crc : {1}, opaque : {9}]

IsBig(info) == info.world_size > MaxWorldSize

TotalBlocks(info) == BlockCount(info.world_size) + BlockCount(info.aux_size)

RegionBlock(first_byte, size, index, padded) ==
    LET from == index * TRANSFER_BLOCK_SIZE
        to == IF from + TRANSFER_BLOCK_SIZE <= size THEN from + TRANSFER_BLOCK_SIZE ELSE size
    IN [k \in 1 .. (IF padded THEN TRANSFER_BLOCK_SIZE ELSE to - from) |->
           IF k <= to - from THEN first_byte + from + k - 1 ELSE 0]

BlockData(info, block_id, padded) ==
    LET world_blocks == BlockCount(info.world_size)
    IN IF block_id < world_blocks
       THEN RegionBlock(100, info.world_size, block_id, padded)
       ELSE IF block_id < TotalBlocks(info)
            THEN RegionBlock(200, info.aux_size, block_id - world_blocks, padded)
            ELSE <<>>

HeartbeatPlain == << PacketType_ServerToClientHeartbeat, 0 >>
HeartbeatTruncated == << PacketType_ServerToClientHeartbeat, 1, 3 >>
OtherPacket == << PacketType_ConnectionAcceptOrDeny, 9 >>
EmptyPacket == <<>>
TransferBlockTruncated == << PacketType_TransferBlock, 0 >>
\* a packet that carries the record's encoding twice
DoubleRecordPacket(info) ==
    << PacketType_ConnectionAcceptOrDeny >>
        \o MapReadyForDownloadData_encode(info) \o MapReadyForDownloadData_encode(info)

\* the block ids the server answers with while the proxy downloads
DeliverableIds(st) ==
    LET pending == st.inflight_block_requests \cup st.block_request_queue
        total == TotalBlocks(st.world_info)
        edge == (IF st.inflight_block_requests = {} THEN {}
                 ELSE {Min(st.inflight_block_requests), Max(st.inflight_block_requests)})
                \cup (IF st.block_request_queue = {} THEN {}
                      ELSE {Min(st.block_request_queue)})
                \cup (IF st.received_blocks = <<>> THEN {}
                      ELSE {st.received_blocks[1].block_id})
                \cup {total}
    IN IF ~IsBig(st.world_info) THEN 0 .. total
       ELSE IF Len(st.received_blocks) < MaxBigAccepted THEN edge
       ELSE edge \ pending

ServerPackets(ph, st) ==
    CASE ph = "WaitingForWorld" ->
            {HeartbeatPacket(info) : info \in WorldInfos}
                \cup {HeartbeatPlain, HeartbeatTruncated, OtherPacket, EmptyPacket,
                      TransferBlockPacket_encode_full_packet(0, << 100, 101 >>)}
      [] ph = "DownloadingWorld" ->
            {TransferBlockPacket_encode_full_packet(id, BlockData(st.world_info, id, padded)) :
                 id \in DeliverableIds(st),
                 padded \in IF IsBig(st.world_info) THEN {TRUE} ELSE BOOLEAN}
                \cup {EmptyPacket, TransferBlockTruncated}
                \cup (IF Len(st.held_packets) <= MaxHeld
                      THEN {HeartbeatPlain, DoubleRecordPacket(st.world_info)}
                      ELSE {})
      [] ph = "Done" ->
            {HeartbeatPlain, EmptyPacket, HeartbeatPacket(NoWorldInfo),
             TransferBlockPacket_encode_full_packet(0, << 100, 101 >>)}

\* the packets of the game client that arrive through the tunnel
ClientPackets == {<< PacketType_TransferBlockRequest, 0, 0, 0, 0 >>}

ElapsedValues == {0, STALL_MILLIS, STALL_MILLIS + 1}

(***************************************************************************)
(* ClientProxyState (client_proxy.rs): the world buffer of one game client *)
(* and the block requests that wait for it.  last_block_request_elapsed    *)
(* stands for last_block_request.elapsed(), in seconds.                    *)
(***************************************************************************)
\* TransferBlockRequestPacket::decode: the block_id
TransferBlockRequestPacket_decode(msg_data) ==
    IF Len(msg_data) >= 4
    THEN [ok |-> TRUE, block_id |-> ReadU32LE(msg_data, 0)]
    ELSE [ok |-> FALSE, block_id |-> 0]

ClientProxyState_new ==
    [world_data |-> <<>>, last_block_request_elapsed |-> 0, pending_requests |-> {},
     pending_requests_swap |-> {}, world_data_done |-> FALSE]

\* a block is served as soon as one byte of it is in the buffer
try_fulfill_block_request_partial(self, requested_block_id) ==
    LET offset == requested_block_id * TRANSFER_BLOCK_SIZE
        end == IF offset + TRANSFER_BLOCK_SIZE <= Len(self.world_data)
               THEN offset + TRANSFER_BLOCK_SIZE ELSE Len(self.world_data)
    IN IF offset < Len(self.world_data)
       THEN [some |-> TRUE, block_id |-> requested_block_id,
             data |-> Slice(self.world_data, offset, end)]
       ELSE [some |-> FALSE, block_id |-> requested_block_id, data |-> <<>>]

\* Some(TransferBlockPacket) if the whole block is in the buffer, else None
try_fulfill_block_request(self, requested_block_id) ==
    LET offset == requested_block_id * TRANSFER_BLOCK_SIZE
    IN IF offset + TRANSFER_BLOCK_SIZE <= Len(self.world_data)
       THEN [some |-> TRUE, block_id |-> requested_block_id,
             data |-> Slice(self.world_data, offset, offset + TRANSFER_BLOCK_SIZE)]
       ELSE [some |-> FALSE, block_id |-> requested_block_id, data |-> <<>>]

\* on_packet_from_client, lines 193-200: a decoded TransferBlockRequest
on_block_request(self, block_id, out_packets) ==
    LET response == try_fulfill_block_request(self, block_id)
    IN IF response.some
       THEN [self |-> [self EXCEPT !.last_block_request_elapsed = 0],
             out_packets |->
                 Append(out_packets,
                        OutPacket(TransferBlockPacket_encode_full_packet(
                                      response.block_id, response.data),
                                  "ToClient"))]
       ELSE [self |-> [self EXCEPT !.pending_requests = @ \cup {block_id},
                                   !.last_block_request_elapsed = 0],
             out_packets |-> out_packets]

\* the packet is pushed twice
forward_to_server_twice(self, packet_data, out_packets) ==
    [self |-> self,
     out_packets |-> out_packets \o << OutPacket(packet_data, "ToServer"),
                                       OutPacket(packet_data, "ToServer") >>]

\* on_packet_from_client, lines 205-211: any other packet
forward_to_server(self, packet_data, out_packets) ==
    LET cleaned ==
            IF self.world_data # <<>> /\ self.world_data_done
               /\ self.last_block_request_elapsed > WORLD_DATA_TIMEOUT
            THEN [self EXCEPT !.world_data = <<>>]
            ELSE self
    IN [self |-> cleaned,
        out_packets |-> Append(out_packets, OutPacket(packet_data, "ToServer"))]

on_packet_from_client(self, packet_data, out_packets) ==
    LET header == FactorioPacketHeader_decode(packet_data)
        request == TransferBlockRequestPacket_decode(header.msg_data)
    IN IF header.ok /\ header.packet_type = PacketType_TransferBlockRequest /\ request.ok
       THEN on_block_request(self, request.block_id, out_packets)
       ELSE forward_to_server(self, packet_data, out_packets)

RECURSIVE fulfill_pending(_, _, _, _)
\* on_new_world_data, lines 224-230: the scan of pending_requests in set order
fulfill_pending(self, ids, swap, out_packets) ==
    IF ids = <<>> THEN [swap |-> swap, out_packets |-> out_packets]
    ELSE LET response == try_fulfill_block_request(self, Head(ids))
         IN IF response.some
            THEN fulfill_pending(
                     self, Tail(ids), swap,
                     Append(out_packets,
                            OutPacket(TransferBlockPacket_encode_full_packet(
                                          response.block_id, response.data),
                                      "ToClient")))
            ELSE fulfill_pending(self, Tail(ids), swap \cup {Head(ids)}, out_packets)

\* the scan's leftovers are cleared with the rest: the swap is forgotten
finish_scan_without_swap(self, scanned) ==
    [self EXCEPT !.pending_requests = {},
                 !.pending_requests_swap = scanned.swap,
                 !.last_block_request_elapsed = 0]

\* on_new_world_data, lines 232-235: clear, then mem::swap the two sets
finish_scan(self, scanned) ==
    [self EXCEPT !.pending_requests = scanned.swap,
                 !.pending_requests_swap = {},
                 !.last_block_request_elapsed = 0]

\* new_data is [some |-> FALSE] for None, [some |-> TRUE, data |-> bytes] else
on_new_world_data(self, new_data, out_packets) ==
    IF ~new_data.some
    THEN [self |-> [self EXCEPT !.world_data_done = TRUE,
                                !.last_block_request_elapsed = 0],
          out_packets |-> out_packets]
    ELSE LET appended == [self EXCEPT !.world_data = @ \o new_data.data]
             scanned == fulfill_pending(appended, SetToSeq(appended.pending_requests),
                                        appended.pending_requests_swap, out_packets)
         IN [self |-> finish_scan(appended, scanned), out_packets |-> scanned.out_packets]

\* the packets of the game client: block requests, an empty datagram, and a
\* request cut short and another packet which carry their arrival number
ClientRequest(block_id) == TransferBlockRequestPacket_encode_full_packet(block_id)
ClientRequestTruncated(n) == << PacketType_TransferBlockRequest, n >>
ClientOther(n) == << PacketType_ConnectionAcceptOrDeny, n >>

GameClientPackets(n) ==
    {ClientRequest(block_id) : block_id \in 0 .. MaxRequestId}
        \cup {ClientRequestTruncated(n), ClientOther(n), EmptyPacket}

\* the reconstructed world: byte k (from 0) is 100 + k
WorldPiece(from, len) == [k \in 1 .. len |-> 100 + from + k - 1]

(***************************************************************************)
(* The proxy_server task.                                                  *)
(***************************************************************************)
VARIABLES
    phase,          \* proxy_state.phase
    state,          \* the DownloadingWorldState of phase DownloadingWorld
    comp_stream,    \* proxy_state.comp_stream is Some
    pc,             \* the task's position: "select", "drain", "returned"
    select_arm,     \* the select! arm the current iteration took
    in_packet,      \* the datagram the socket arm received
    out_packets,    \* out_packets, filled by the arm and drained after it
    fin,            \* the locals of finalize_world
    transfer_task,  \* the task spawned by finalize_world (transfer_world_data)
    net_requests,   \* block ids whose request travels to the game server
    net_responses,  \* block ids whose TransferBlock travels to the proxy
    drops,          \* requests and responses the network has dropped
    \* the proxy_client task of one game client (client_proxy.rs)
    c_state,                \* proxy_state: the ClientProxyState
    c_pc,                   \* the task's position: "select", "drain", "returned"
    c_arm,                  \* the select! arm the current iteration took
    c_in,                   \* what that arm received
    c_out_packets,          \* out_packets
    c_world_data_done,      \* the task's local world_data_done
    client_receive_queue,   \* the game client's packets queued by the dispatcher
    server_receive_queue,   \* the tunnel's datagrams queued by the dispatcher
    c_arrivals,             \* UDP packets the game client has sent so far
    c_produced,             \* world bytes the stream task has handed over so far
    tunnel_log,             \* the packets handed to connection.send_datagram
    \* the dispatchers of one tunnel connection and their per-peer tasks
    d_status,               \* run_client_proxy: "running" or the error it returned with
    addr_to_queue,          \* address -> the peer whose client_receive_queue it holds
    id_to_queue,            \* the peer ids with an entry (their server_receive_queue)
    next_peer_id,
    c_task,                 \* proxy_client of each peer id: none/starting/running/exited
    c_spawned,              \* how many proxy_client tasks were given each peer id
    c_queue,                \* client_receive_queue of each peer id
    d_arrivals,             \* UDP packets received by the dispatcher so far
    d_dropped,              \* the arrival numbers of the packets try_send refused
    streams,                \* streams opened by client tasks, not yet accepted
    tunnel,                 \* datagrams sent by client tasks, not yet read
    s_status,               \* run_server_proxy: "running" or the error it returned with
    outgoing_queues,        \* the peer ids with an entry (their receive_queue)
    s_open,                 \* whether the receiver of that entry's queue still exists
    s_live,                 \* live proxy_server tasks of each peer id
    s_queue,                \* receive_queue of each peer id
    \* the server process (main.rs) and its QUIC endpoint
    e_pc,                   \* subcommand_server: serving/interrupted/waiting/terminated/panicked
    e_accept,               \* run_server: 0 at endpoint.accept(), else the handshake awaited
    e_closed,               \* the arguments of each endpoint.close call, in order
    conns,                  \* each connection: none/handshaking/serving/failed/closed
    e_pending,              \* tunnel sends each connection's peer tasks still hold
    e_lost,                 \* tunnel sends that failed because the connection was closed
    \* the client-side stream task transfer_world_data and the shared cache
    t_pc,                   \* its position, or how it returned
    t_file,                 \* the file of the world description being reconstructed
    all_chunks,             \* the chunk keys not yet looked up
    local_cache,            \* the chunk keys of local_cache
    t_batch,                \* batch_keys() of the open Batch, <<>> without one
    t_response,             \* the chunks of the last SendChunksMessage received
    t_requests,             \* the RequestChunksMessages written so far
    t_world_sent,           \* the pieces given to world_data_sender so far
    t_fulfilled,            \* the Batches this transfer has fulfilled so far
    t_read,                 \* the messages it has read from the stream so far
    chunk_cache,            \* the shared chunk cache: entries of key and chunk
    cache_dirty,            \* its dirty flag
    \* the tunnel stream of that peer and the tunnel server's side of it
    stream_up,              \* the messages the client has written, in order
    stream_down,            \* the messages the server has written, in order
    st_pc,                  \* the server side: accept/proxying/spawned/serving or its end
    st_read,                \* the messages the server has read from the stream so far
    server_chunks,          \* the chunk map transfer_world_data serves from
    \* the downloader's block arithmetic over the whole range of sizes
    b_pc,                   \* the phase, or "panicked"
    b_world_info,           \* the announced MapReadyForDownloadData
    b_state,                \* the DownloadingWorldState the transition built
    b_aux_range             \* finalize_world's aux_data_offset and end of aux_data

server_vars == << phase, state, comp_stream, pc, select_arm, in_packet, out_packets, fin,
                  transfer_task, net_requests, net_responses, drops >>

client_vars == << c_state, c_pc, c_arm, c_in, c_out_packets, c_world_data_done,
                  client_receive_queue, server_receive_queue, c_arrivals, c_produced,
                  tunnel_log >>

dispatch_vars == << d_status, addr_to_queue, id_to_queue, next_peer_id, c_task,
                    c_spawned, c_queue, d_arrivals, d_dropped, streams, tunnel,
                    s_status, outgoing_queues, s_open, s_live, s_queue >>

endpoint_vars == << e_pc, e_accept, e_closed, conns, e_pending, e_lost >>

transfer_vars == << t_pc, t_file, all_chunks, local_cache, t_batch, t_response,
                    t_requests, t_world_sent, t_fulfilled, t_read, chunk_cache,
                    cache_dirty, stream_up, stream_down, st_pc, st_read, server_chunks >>

arith_vars == << b_pc, b_world_info, b_state, b_aux_range >>

vars == << server_vars, client_vars, dispatch_vars, endpoint_vars, transfer_vars,
           arith_vars >>

beyond_server_vars ==
    << client_vars, dispatch_vars, endpoint_vars, transfer_vars, arith_vars >>

beyond_client_vars ==
    << server_vars, dispatch_vars, endpoint_vars, transfer_vars, arith_vars >>

beyond_dispatch_vars ==
    << server_vars, client_vars, endpoint_vars, transfer_vars, arith_vars >>

beyond_endpoint_vars ==
    << server_vars, client_vars, dispatch_vars, transfer_vars, arith_vars >>

beyond_arith_vars ==
    << server_vars, client_vars, dispatch_vars, endpoint_vars, transfer_vars >>

beyond_transfer_vars ==
    << server_vars, client_vars, dispatch_vars, endpoint_vars, arith_vars >>

net_vars == << net_requests, net_responses, drops >>

Init ==
    /\ phase = ServerProxyState_new.phase
    /\ state = ServerProxyState_new.state
    /\ comp_stream = ServerProxyState_new.comp_stream
    /\ pc = "select"
    /\ select_arm = "none"
    /\ in_packet = <<>>
    /\ out_packets = <<>>
    /\ fin = NoFin
    /\ transfer_task = "none"
    /\ net_requests = {}
    /\ net_responses = {}
    /\ drops = 0
    /\ c_state = ClientProxyState_new
    /\ c_pc = "select"
    /\ c_arm = "none"
    /\ c_in = <<>>
    /\ c_out_packets = <<>>
    /\ c_world_data_done = FALSE
    /\ client_receive_queue = <<>>
    /\ server_receive_queue = <<>>
    /\ c_arrivals = 0
    /\ c_produced = 0
    /\ tunnel_log = <<>>
    /\ d_status = "running"
    /\ addr_to_queue = [addr \in PeerAddrs |-> NoPeer]
    /\ id_to_queue = {}
    /\ next_peer_id = 0
    /\ c_task = [id \in PeerIds |-> "none"]
    /\ c_spawned = [id \in PeerIds |-> 0]
    /\ c_queue = [id \in PeerIds |-> <<>>]
    /\ d_arrivals = 0
    /\ d_dropped = {}
    /\ streams = {}
    /\ tunnel = {}
    /\ s_status = "running"
    /\ outgoing_queues = {}
    /\ s_open = [id \in PeerIds |-> FALSE]
    /\ s_live = [id \in PeerIds |-> 0]
    /\ s_queue = [id \in PeerIds |-> <<>>]
    /\ e_pc = "serving"
    /\ e_accept = 0
    /\ e_closed = <<>>
    /\ conns = [c \in ConnIds |-> "none"]
    /\ e_pending = [c \in ConnIds |-> 0]
    /\ e_lost = 0
    /\ t_pc = "open_stream"
    /\ t_file = 1
    /\ all_chunks = <<>>
    /\ local_cache = {}
    /\ t_batch = <<>>
    /\ t_response = <<>>
    /\ t_requests = 0
    /\ t_world_sent = 0
    /\ t_fulfilled = 0
    /\ t_read = 0
    /\ chunk_cache = {}
    /\ cache_dirty = FALSE
    /\ stream_up = <<>>
    /\ stream_down = <<>>
    /\ st_pc = "accept"
    /\ st_read = 0
    /\ server_chunks = <<>>
    /\ b_pc = "WaitingForWorld"
    /\ b_world_info = NoWorldInfo
    /\ b_state = NoState
    /\ b_aux_range = << 0, 0 >>

\* the socket arm: proxy_state.on_packet_from_server(buf, &mut out_packets)
HandlePacketFromServer(packet, choice) ==
    \E r \in {on_packet_from_server(
                  [phase |-> phase, state |-> state, comp_stream |-> comp_stream],
                  packet, out_packets, choice)} :
       /\ phase' = r.self.phase
       /\ state' = r.self.state
       /\ comp_stream' = r.self.comp_stream
       /\ out_packets' = r.out_packets
       /\ fin' = IF r.fin = NoFin THEN fin ELSE r.fin
       /\ transfer_task' = IF r.spawn THEN "spawned" ELSE transfer_task
       /\ in_packet' = packet
       /\ select_arm' = "socket"
       /\ pc' = "drain"

\* deconstruct_world runs only when the packet completes the download
ChoicesAt(ph, st) ==
    IF ph = "DownloadingWorld"
       /\ Cardinality(st.inflight_block_requests \cup st.block_request_queue) <= 1
    THEN DedupChoices
    ELSE {CHOOSE choice \in DedupChoices : ~choice.ok}

RecvFromServer ==
    /\ pc = "select"
    /\ \E packet \in ServerPackets(phase, state), choice \in ChoicesAt(phase, state) :
           HandlePacketFromServer(packet, choice)
    /\ UNCHANGED net_vars
    /\ UNCHANGED beyond_server_vars

\* the queue arm: out_packets.push((packet_data, PacketDirection::ToServer))
RecvFromTunnel ==
    /\ pc = "select"
    /\ \E packet_data \in ClientPackets :
           out_packets' = Append(out_packets, OutPacket(packet_data, "ToServer"))
    /\ select_arm' = "queue"
    /\ pc' = "drain"
    /\ UNCHANGED << phase, state, comp_stream, in_packet, fin, transfer_task >>
    /\ UNCHANGED net_vars
    /\ UNCHANGED beyond_server_vars

\* for (packet_data, dir) in out_packets.drain(..): every send succeeds
Drain ==
    /\ pc = "drain"
    /\ out_packets' = <<>>
    /\ in_packet' = <<>>
    /\ select_arm' = "none"
    /\ pc' = "select"
    /\ UNCHANGED << phase, state, comp_stream, fin, transfer_task >>
    /\ UNCHANGED net_vars
    /\ UNCHANGED beyond_server_vars

\* a send of the drain loop fails: return
DrainFails ==
    /\ pc = "drain"
    /\ out_packets # <<>>
    /\ out_packets' = <<>>
    /\ in_packet' = <<>>
    /\ select_arm' = "none"
    /\ pc' = "returned"
    /\ UNCHANGED << phase, state, comp_stream, fin, transfer_task >>
    /\ UNCHANGED net_vars
    /\ UNCHANGED beyond_server_vars

\* the socket fails, the queue is closed or UDP_PEER_IDLE_TIMEOUT passes: return
TaskReturns ==
    /\ pc = "select"
    /\ pc' = "returned"
    /\ UNCHANGED << phase, state, comp_stream, select_arm, in_packet, out_packets, fin,
                    transfer_task >>
    /\ UNCHANGED net_vars
    /\ UNCHANGED beyond_server_vars

\* time passes while the task waits in select!
Tick ==
    /\ pc = "select"
    /\ phase = "DownloadingWorld"
    /\ \E elapsed \in ElapsedValues :
           /\ elapsed > state.last_block_elapsed
           /\ state' = [state EXCEPT !.last_block_elapsed = elapsed]
    /\ UNCHANGED << phase, comp_stream, pc, select_arm, in_packet, out_packets, fin,
                    transfer_task >>
    /\ UNCHANGED net_vars
    /\ UNCHANGED beyond_server_vars

\* transfer_world_data, lines 360-367: encode and write the WorldReadyMessage
WriteWorldReady ==
    /\ transfer_task = "spawned"
    /\ transfer_task' \in {"world_ready_written", "failed"}
    /\ UNCHANGED << phase, state, comp_stream, pc, select_arm, in_packet, out_packets, fin >>
    /\ UNCHANGED net_vars
    /\ UNCHANGED beyond_server_vars

Next ==
    \/ RecvFromServer
    \/ RecvFromTunnel
    \/ Drain
    \/ DrainFails
    \/ TaskReturns
    \/ Tick
    \/ WriteWorldReady

Spec == Init /\ [][Next]_vars

(***************************************************************************)
(* The same task on a lossy network (the stall scenario): block requests   *)
(* and TransferBlock responses travel through net_requests and             *)
(* net_responses, the network may drop up to MaxDrops of them and delivers *)
(* reliably afterwards, and the game server answers every request that     *)
(* reaches it.  The game client, which waits for the map, sends nothing;   *)
(* the task does not return: the socket and the queue stay healthy and the *)
(* idle timeout is not reached.                                            *)
(***************************************************************************)
\* the block ids of the TransferBlockRequest packets sent towards the server
RequestedIds(packets) ==
    {ReadU32LE(packets[i].data, 1) :
        i \in {j \in 1 .. Len(packets) :
                  /\ packets[j].dir = "ToServer"
                  /\ Len(packets[j].data) = 5
                  /\ packets[j].data[1] = PacketType_TransferBlockRequest}}

\* the worlds announced in the stall scenario: the empty, the one-byte and the
\* largest small world, without and with auxiliary data
LiveWorldInfos ==
    {info \in WorldInfos : /\ info.world_size \in {0, 1, MaxWorldSize}
                           /\ info.aux_size \in {0, MaxAuxSize}}

\* what the game server sends besides TransferBlock responses
LiveServerPackets(ph, st) ==
    CASE ph = "WaitingForWorld" ->
            {HeartbeatPacket(info) : info \in LiveWorldInfos}
      [] ph = "DownloadingWorld" ->
            {EmptyPacket}
                \cup (IF Len(st.held_packets) <= MaxHeld THEN {HeartbeatPlain} ELSE {})
      [] ph = "Done" -> {HeartbeatPlain}

\* the socket arm receives a packet that is not a block response
LiveRecvFromServer ==
    /\ pc = "select"
    /\ \E packet \in LiveServerPackets(phase, state) :
           HandlePacketFromServer(packet, CHOOSE choice \in DedupChoices : ~choice.ok)
    /\ UNCHANGED net_vars
    /\ UNCHANGED beyond_server_vars

\* deconstruct_world fails or reconstructs a world of another size and crc
LiveChoicesAt(ph, st) ==
    {choice \in ChoicesAt(ph, st) : ~choice.ok \/ (choice.grow = 4 /\ choice.crc = 2)}

\* the socket arm receives a TransferBlock response the network delivers
DeliverResponse ==
    /\ pc = "select"
    /\ \E id \in net_responses, choice \in LiveChoicesAt(phase, state) :
           /\ HandlePacketFromServer(
                  TransferBlockPacket_encode_full_packet(
                      id, BlockData(state.world_info, id, TRUE)),
                  choice)
           /\ net_responses' = net_responses \ {id}
    /\ UNCHANGED << net_requests, drops >>
    /\ UNCHANGED beyond_server_vars

\* the drain loop: the requests among out_packets enter the network
LiveDrain ==
    /\ pc = "drain"
    /\ net_requests' = net_requests \cup RequestedIds(out_packets)
    /\ out_packets' = <<>>
    /\ in_packet' = <<>>
    /\ select_arm' = "none"
    /\ pc' = "select"
    /\ UNCHANGED << phase, state, comp_stream, fin, transfer_task, net_responses, drops >>
    /\ UNCHANGED beyond_server_vars

\* the game server answers a request with the block
ServerAnswers ==
    /\ \E id \in net_requests :
           /\ net_requests' = net_requests \ {id}
           /\ net_responses' = net_responses \cup {id}
    /\ UNCHANGED << phase, state, comp_stream, pc, select_arm, in_packet, out_packets, fin,
                    transfer_task, drops >>
    /\ UNCHANGED beyond_server_vars

DropRequest ==
    /\ drops < MaxDrops
    /\ \E id \in net_requests : net_requests' = net_requests \ {id}
    /\ drops' = drops + 1
    /\ UNCHANGED << phase, state, comp_stream, pc, select_arm, in_packet, out_packets, fin,
                    transfer_task, net_responses >>
    /\ UNCHANGED beyond_server_vars

DropResponse ==
    /\ drops < MaxDrops
    /\ \E id \in net_responses : net_responses' = net_responses \ {id}
    /\ drops' = drops + 1
    /\ UNCHANGED << phase, state, comp_stream, pc, select_arm, in_packet, out_packets, fin,
                    transfer_task, net_requests >>
    /\ UNCHANGED beyond_server_vars

LiveNext ==
    \/ LiveRecvFromServer
    \/ DeliverResponse
    \/ LiveDrain
    \/ ServerAnswers
    \/ DropRequest
    \/ DropResponse
    \/ Tick

\* a step of DeliverResponse, recognised by its effect
DeliveryStep ==
    pc = "select" /\ pc' = "drain" /\ net_responses' # net_responses

\* The task's own steps are fair: the drain loop runs to its end, time passes,
\* and a datagram that waits in the socket buffer whenever the task comes back
\* to select! is received.  The last is strong fairness of DeliverResponse
\* with ENABLED <<DeliverResponse>>_vars written out.  The game server answers
\* a request that reaches it.  Nothing obliges the server to send anything
\* else.
LiveFairness ==
    /\ WF_vars(LiveDrain)
    /\ SF_vars(Tick)
    /\ WF_vars(ServerAnswers)
    /\ ([]<>(pc = "select" /\ net_responses # {}) => []<><<DeliveryStep>>_vars)

LiveSpec == Init /\ [][LiveNext]_vars /\ LiveFairness

(***************************************************************************)
(* The proxy_client task of one game client after its stream is open, with *)
(* the two queues the dispatcher (run_client_proxy) fills for it and the   *)
(* channel on which the stream task hands over reconstructed world data.   *)
(***************************************************************************)
\* the packet is queued whatever the queue holds
try_send_unbounded(queue, packet_data) ==
    Append(queue, packet_data)

\* mpsc::Sender::try_send: the packet is queued unless the queue is full
try_send(queue, packet_data) ==
    IF Len(queue) < UDP_QUEUE_SIZE THEN Append(queue, packet_data) ELSE queue

ClientElapsedValues == {0, WORLD_DATA_TIMEOUT, WORLD_DATA_TIMEOUT + 1}

\* run_client_proxy, line 74: a UDP packet of the game client is queued or dropped
GameClientSends ==
    /\ c_pc # "returned"
    /\ c_arrivals < MaxClientArrivals
    /\ c_arrivals' = c_arrivals + 1
    /\ \E packet_data \in GameClientPackets(c_arrivals + 1) :
           client_receive_queue' = try_send(client_receive_queue, packet_data)
    /\ UNCHANGED << c_state, c_pc, c_arm, c_in, c_out_packets, c_world_data_done,
                    server_receive_queue, c_produced, tunnel_log >>
    /\ UNCHANGED beyond_client_vars

\* run_client_proxy, lines 79-81: a datagram of the tunnel is queued or dropped
TunnelDelivers ==
    /\ c_pc # "returned"
    /\ server_receive_queue' = try_send(server_receive_queue, HeartbeatPlain)
    /\ server_receive_queue' # server_receive_queue
    /\ UNCHANGED << c_state, c_pc, c_arm, c_in, c_out_packets, c_world_data_done,
                    client_receive_queue, c_arrivals, c_produced, tunnel_log >>
    /\ UNCHANGED beyond_client_vars

\* proxy_client, lines 131-135
ClientQueueArm ==
    /\ c_pc = "select"
    /\ client_receive_queue # <<>>
    /\ \E r \in {on_packet_from_client(c_state, Head(client_receive_queue), c_out_packets)} :
           /\ c_state' = r.self
           /\ c_out_packets' = r.out_packets
    /\ c_in' = Head(client_receive_queue)
    /\ client_receive_queue' = Tail(client_receive_queue)
    /\ c_arm' = "client"
    /\ c_pc' = "drain"
    /\ UNCHANGED << c_world_data_done, server_receive_queue, c_arrivals, c_produced,
                    tunnel_log >>
    /\ UNCHANGED beyond_client_vars

\* proxy_client, lines 136-140
ServerQueueArm ==
    /\ c_pc = "select"
    /\ server_receive_queue # <<>>
    /\ c_out_packets' = Append(c_out_packets,
                               OutPacket(Head(server_receive_queue), "ToClient"))
    /\ c_in' = Head(server_receive_queue)
    /\ server_receive_queue' = Tail(server_receive_queue)
    /\ c_arm' = "server"
    /\ c_pc' = "drain"
    /\ UNCHANGED << c_state, c_world_data_done, client_receive_queue, c_arrivals,
                    c_produced, tunnel_log >>
    /\ UNCHANGED beyond_client_vars

\* proxy_client, lines 141-147: the stream task hands over a piece of the world
WorldDataArm ==
    /\ c_pc = "select"
    /\ ~c_world_data_done
    /\ \E len \in 1 .. (TRANSFER_BLOCK_SIZE + 1) :
           /\ c_produced + len <= MaxWorldBuffer
           /\ c_in' = WorldPiece(c_produced, len)
           /\ c_produced' = c_produced + len
           /\ \E r \in {on_new_world_data(
                            c_state, [some |-> TRUE, data |-> WorldPiece(c_produced, len)],
                            c_out_packets)} :
                  /\ c_state' = r.self
                  /\ c_out_packets' = r.out_packets
    /\ c_arm' = "world_data"
    /\ c_pc' = "drain"
    /\ UNCHANGED << c_world_data_done, client_receive_queue, server_receive_queue,
                    c_arrivals, tunnel_log >>
    /\ UNCHANGED beyond_client_vars

\* proxy_client, lines 141-147: the channel is closed, recv() returns None
WorldDataEnds ==
    /\ c_pc = "select"
    /\ ~c_world_data_done
    /\ c_world_data_done' = TRUE
    /\ \E r \in {on_new_world_data(c_state, [some |-> FALSE], c_out_packets)} :
           /\ c_state' = r.self
           /\ c_out_packets' = r.out_packets
    /\ c_in' = <<>>
    /\ c_arm' = "world_data_end"
    /\ c_pc' = "drain"
    /\ UNCHANGED << client_receive_queue, server_receive_queue, c_arrivals, c_produced,
                    tunnel_log >>
    /\ UNCHANGED beyond_client_vars

\* the packets of out_packets that go to the tunnel, in order
ToServer(packets) == SelectSeq(packets, LAMBDA p : p.dir = "ToServer")

\* proxy_client, lines 151-166: every send succeeds
ClientDrain ==
    /\ c_pc = "drain"
    /\ tunnel_log' =
           tunnel_log \o [i \in 1 .. Len(ToServer(c_out_packets)) |->
                             ToServer(c_out_packets)[i].data]
    /\ c_out_packets' = <<>>
    /\ c_in' = <<>>
    /\ c_arm' = "none"
    /\ c_pc' = "select"
    /\ UNCHANGED << c_state, c_world_data_done, client_receive_queue, server_receive_queue,
                    c_arrivals, c_produced >>
    /\ UNCHANGED beyond_client_vars

\* proxy_client, lines 154-163: the first send fails: return
ClientDrainFails ==
    /\ c_pc = "drain"
    /\ c_out_packets # <<>>
    /\ c_out_packets' = <<>>
    /\ c_in' = <<>>
    /\ c_arm' = "none"
    /\ c_pc' = "returned"
    /\ UNCHANGED << c_state, c_world_data_done, client_receive_queue, server_receive_queue,
                    c_arrivals, c_produced, tunnel_log >>
    /\ UNCHANGED beyond_client_vars

\* proxy_client, lines 132, 137, 148: a queue is closed or
\* UDP_PEER_IDLE_TIMEOUT passes with both queues empty: return
ClientTaskReturns ==
    /\ c_pc = "select"
    /\ client_receive_queue = <<>>
    /\ server_receive_queue = <<>>
    /\ c_pc' = "returned"
    /\ UNCHANGED << c_state, c_arm, c_in, c_out_packets, c_world_data_done,
                    client_receive_queue, server_receive_queue, c_arrivals, c_produced,
                    tunnel_log >>
    /\ UNCHANGED beyond_client_vars

\* time passes while the task waits in select!; the elapsed time is read
\* (line 205) only once world_data_done is set, and setting it restarts the
\* clock (line 217), so time is tracked from then on
ClientTick ==
    /\ c_pc = "select"
    /\ c_state.world_data_done
    /\ \E elapsed \in ClientElapsedValues :
           /\ elapsed > c_state.last_block_request_elapsed
           /\ c_state' = [c_state EXCEPT !.last_block_request_elapsed = elapsed]
    /\ UNCHANGED << c_pc, c_arm, c_in, c_out_packets, c_world_data_done,
                    client_receive_queue, server_receive_queue, c_arrivals, c_produced,
                    tunnel_log >>
    /\ UNCHANGED beyond_client_vars

ClientNext ==
    \/ GameClientSends
    \/ TunnelDelivers
    \/ ClientQueueArm
    \/ ServerQueueArm
    \/ WorldDataArm
    \/ WorldDataEnds
    \/ ClientDrain
    \/ ClientDrainFails
    \/ ClientTaskReturns
    \/ ClientTick

ClientSpec == Init /\ [][ClientNext]_vars

(***************************************************************************)
(* The two dispatchers of one tunnel connection, run_client_proxy and      *)
(* run_server_proxy, with the per-peer tasks they spawn.  A task is        *)
(* modelled by its life cycle and its receive queue; a packet is its       *)
(* arrival number at the client-side dispatcher.                           *)
(***************************************************************************)
\* next_peer_id is left as it is
checked_add_forgotten(n) ==
    [ok |-> TRUE, value |-> n]

\* u32::checked_add(1)
checked_add(n) ==
    IF n < PEER_ID_MAX THEN [ok |-> TRUE, value |-> n + 1] ELSE [ok |-> FALSE, value |-> n]

\* addr_to_queue.get(&peer_addr).filter(|s| !s.is_closed()): the receiver of
\* the queue exists from the spawn until the task returns
lookup_open_queue(peer_addr) ==
    IF addr_to_queue[peer_addr] # NoPeer /\ c_task[addr_to_queue[peer_addr]] # "exited"
    THEN addr_to_queue[peer_addr]
    ELSE NoPeer

\* run_client_proxy, lines 41-75: a UDP packet from peer_addr
ClientDispatch(peer_addr) ==
    /\ d_status = "running"
    /\ d_arrivals < MaxDispatchArrivals
    /\ d_arrivals' = d_arrivals + 1
    /\ LET packet == d_arrivals + 1
           known == lookup_open_queue(peer_addr)
           peer_id == next_peer_id
           next == checked_add(next_peer_id)
       IN IF known # NoPeer
          THEN /\ c_queue' = [c_queue EXCEPT ![known] = try_send(@, packet)]
               /\ d_dropped' = IF c_queue'[known] = c_queue[known]
                               THEN d_dropped \cup {packet} ELSE d_dropped
               /\ UNCHANGED << d_status, addr_to_queue, id_to_queue, next_peer_id,
                               c_task, c_spawned >>
          ELSE IF ~next.ok
          THEN /\ d_status' = "out_of_peer_ids"
               /\ addr_to_queue' = [addr \in PeerAddrs |-> NoPeer]
               /\ id_to_queue' = {}
               /\ UNCHANGED << next_peer_id, c_task, c_spawned, c_queue, d_dropped >>
          ELSE /\ next_peer_id' = next.value
               /\ c_task' = [c_task EXCEPT ![peer_id] = "starting"]
               /\ c_spawned' = [c_spawned EXCEPT ![peer_id] = @ + 1]
               /\ addr_to_queue' = [addr_to_queue EXCEPT ![peer_addr] = peer_id]
               /\ id_to_queue' = id_to_queue \cup {peer_id}
               /\ c_queue' = [c_queue EXCEPT ![peer_id] = try_send(<<>>, packet)]
               /\ UNCHANGED << d_status, d_dropped >>
    /\ UNCHANGED << streams, tunnel, s_status, outgoing_queues, s_open, s_live, s_queue >>
    /\ UNCHANGED beyond_dispatch_vars

\* run_client_proxy, line 77: a datagram that does not decode ends the
\* dispatcher; its maps and the senders in them are dropped
ClientDispatcherFails ==
    /\ d_status = "running"
    /\ d_status' = "datagram_decode"
    /\ addr_to_queue' = [addr \in PeerAddrs |-> NoPeer]
    /\ id_to_queue' = {}
    /\ UNCHANGED << c_spawned, next_peer_id, c_task, c_queue, d_arrivals, d_dropped,
                    streams, tunnel, s_status, outgoing_queues, s_open, s_live, s_queue >>
    /\ UNCHANGED beyond_dispatch_vars

\* proxy_client, lines 101-102: the stream is opened and the preamble written,
\* or the write fails and the stream ends without a preamble
ClientTaskOpensStream(peer_id) ==
    /\ c_task[peer_id] = "starting"
    /\ \/ /\ c_task' = [c_task EXCEPT ![peer_id] = "running"]
          /\ streams' = streams \cup {[peer_id |-> peer_id, preamble |-> TRUE]}
          /\ UNCHANGED c_queue
       \/ /\ c_task' = [c_task EXCEPT ![peer_id] = "exited"]
          /\ streams' = streams \cup {[peer_id |-> peer_id, preamble |-> FALSE]}
          /\ c_queue' = [c_queue EXCEPT ![peer_id] = <<>>]
    /\ UNCHANGED << c_spawned, d_status, addr_to_queue, id_to_queue, next_peer_id,
                    d_arrivals, d_dropped, tunnel, s_status, outgoing_queues, s_open,
                    s_live, s_queue >>
    /\ UNCHANGED beyond_dispatch_vars

\* proxy_client, lines 131-135 and 158-164: the head of the queue is handled
\* and sent over the tunnel as a datagram of this peer
ClientTaskForwards(peer_id) ==
    /\ c_task[peer_id] = "running"
    /\ c_queue[peer_id] # <<>>
    /\ Cardinality(tunnel) < MaxInFlight
    /\ c_queue' = [c_queue EXCEPT ![peer_id] = Tail(@)]
    /\ tunnel' = tunnel \cup {[peer_id |-> peer_id, data |-> Head(c_queue[peer_id])]}
    /\ UNCHANGED << c_spawned, d_status, addr_to_queue, id_to_queue, next_peer_id, c_task,
                    d_arrivals, d_dropped, streams, s_status, outgoing_queues, s_open,
                    s_live, s_queue >>
    /\ UNCHANGED beyond_dispatch_vars

\* proxy_client, lines 132, 137, 148, 155, 162: the task returns: idle
\* timeout, a closed queue or a failed send; its receivers are dropped
ClientTaskExits(peer_id) ==
    /\ c_task[peer_id] = "running"
    /\ c_task' = [c_task EXCEPT ![peer_id] = "exited"]
    /\ c_queue' = [c_queue EXCEPT ![peer_id] = <<>>]
    /\ UNCHANGED << c_spawned, d_status, addr_to_queue, id_to_queue, next_peer_id,
                    d_arrivals, d_dropped, streams, tunnel, s_status, outgoing_queues,
                    s_open, s_live, s_queue >>
    /\ UNCHANGED beyond_dispatch_vars

\* run_server_proxy, lines 34-61: a stream is accepted; with its preamble a
\* task is spawned and the entry of its peer id is set, without it the
\* dispatcher returns the read error
ServerAcceptsStream ==
    /\ s_status = "running"
    /\ \E stream \in streams :
           /\ streams' = streams \ {stream}
           /\ IF stream.preamble
              THEN /\ s_live' = [s_live EXCEPT ![stream.peer_id] = @ + 1]
                   /\ outgoing_queues' = outgoing_queues \cup {stream.peer_id}
                   /\ s_open' = [s_open EXCEPT ![stream.peer_id] = TRUE]
                   /\ s_queue' = [s_queue EXCEPT ![stream.peer_id] = <<>>]
                   /\ UNCHANGED s_status
              ELSE /\ s_status' = "preamble_read"
                   /\ outgoing_queues' = {}
                   /\ UNCHANGED << s_open, s_live, s_queue >>
    /\ UNCHANGED << c_spawned, d_status, addr_to_queue, id_to_queue, next_peer_id, c_task,
                    c_queue, d_arrivals, d_dropped, tunnel >>
    /\ UNCHANGED beyond_dispatch_vars

\* run_server_proxy, lines 27-33: a datagram is read and routed by its peer id
ServerDispatch ==
    /\ s_status = "running"
    /\ \E datagram \in tunnel :
           /\ tunnel' = tunnel \ {datagram}
           /\ s_queue' =
                  IF datagram.peer_id \in outgoing_queues /\ s_open[datagram.peer_id]
                  THEN [s_queue EXCEPT ![datagram.peer_id] = try_send(@, datagram.data)]
                  ELSE s_queue
    /\ UNCHANGED << c_spawned, d_status, addr_to_queue, id_to_queue, next_peer_id, c_task,
                    c_queue, d_arrivals, d_dropped, streams, s_status, outgoing_queues,
                    s_open, s_live >>
    /\ UNCHANGED beyond_dispatch_vars

\* run_server_proxy, line 28: a datagram that does not decode ends the
\* dispatcher; its map and the senders in it are dropped
ServerDispatcherFails ==
    /\ s_status = "running"
    /\ s_status' = "datagram_decode"
    /\ outgoing_queues' = {}
    /\ UNCHANGED << c_spawned, d_status, addr_to_queue, id_to_queue, next_peer_id, c_task,
                    c_queue, d_arrivals, d_dropped, streams, tunnel, s_open, s_live,
                    s_queue >>
    /\ UNCHANGED beyond_dispatch_vars

\* proxy_server, lines 97-101 and 114-118: the head of the queue goes to the
\* game server
ServerTaskForwards(peer_id) ==
    /\ s_open[peer_id]
    /\ s_queue[peer_id] # <<>>
    /\ s_queue' = [s_queue EXCEPT ![peer_id] = Tail(@)]
    /\ UNCHANGED << c_spawned, d_status, addr_to_queue, id_to_queue, next_peer_id, c_task,
                    c_queue, d_arrivals, d_dropped, streams, tunnel, s_status,
                    outgoing_queues, s_open, s_live >>
    /\ UNCHANGED beyond_dispatch_vars

\* proxy_server, lines 90, 98, 102, 111, 116: a task returns: idle timeout,
\* a closed queue, a socket error or a failed send.  A task whose sender was
\* replaced in outgoing_queues finds its queue closed.
ServerTaskExits(peer_id) ==
    /\ s_live[peer_id] >= 1
    /\ s_live' = [s_live EXCEPT ![peer_id] = @ - 1]
    /\ \/ /\ s_open[peer_id]
          /\ s_open' = [s_open EXCEPT ![peer_id] = FALSE]
          /\ s_queue' = [s_queue EXCEPT ![peer_id] = <<>>]
       \/ /\ s_live[peer_id] >= 2 \/ ~s_open[peer_id]
          /\ UNCHANGED << s_open, s_queue >>
    /\ UNCHANGED << c_spawned, d_status, addr_to_queue, id_to_queue, next_peer_id, c_task,
                    c_queue, d_arrivals, d_dropped, streams, tunnel, s_status,
                    outgoing_queues >>
    /\ UNCHANGED beyond_dispatch_vars

DispatchNext ==
    \/ \E peer_addr \in PeerAddrs : ClientDispatch(peer_addr)
    \/ ClientDispatcherFails
    \/ \E peer_id \in PeerIds : ClientTaskOpensStream(peer_id)
    \/ \E peer_id \in PeerIds : ClientTaskForwards(peer_id)
    \/ \E peer_id \in PeerIds : ClientTaskExits(peer_id)
    \/ ServerAcceptsStream
    \/ ServerDispatch
    \/ ServerDispatcherFails
    \/ \E peer_id \in PeerIds : ServerTaskForwards(peer_id)
    \/ \E peer_id \in PeerIds : ServerTaskExits(peer_id)

\* the steps of tasks and dispatchers that no outside event has to cause
DispatchProgress ==
    \/ \E peer_id \in PeerIds : ClientTaskOpensStream(peer_id)
    \/ \E peer_id \in PeerIds : ClientTaskForwards(peer_id)
    \/ ServerAcceptsStream
    \/ ServerDispatch
    \/ \E peer_id \in PeerIds : ServerTaskForwards(peer_id)

\* tasks and dispatchers are scheduled; packets, errors and timeouts need
\* not happen
DispatchSpec == Init /\ [][DispatchNext]_vars /\ WF_vars(DispatchProgress)

(***************************************************************************)
(* The server process: subcommand_server with the accept loop run_server,  *)
(* the connection tasks it spawns (run_server_proxy) and the tunnel sends  *)
(* of their peer tasks.                                                    *)
(***************************************************************************)
\* Endpoint::close and the end of the process: every connection that is
\* open or being set up is closed
close_connections(connections) ==
    [c \in ConnIds |->
        IF connections[c] \in {"handshaking", "serving"} THEN "closed" ELSE connections[c]]

\* run_server, line 197: endpoint.accept() yields an incoming connection
IncomingConnection(c) ==
    /\ e_pc = "serving"
    /\ e_accept = 0
    /\ conns[c] = "none"
    /\ conns' = [conns EXCEPT ![c] = "handshaking"]
    /\ e_accept' = c
    /\ UNCHANGED << e_pc, e_closed, e_pending, e_lost >>
    /\ UNCHANGED beyond_endpoint_vars

\* run_server, lines 197-209: the handshake completes and the connection's
\* run_server_proxy is spawned
HandshakeSucceeds ==
    /\ e_pc = "serving"
    /\ e_accept # 0
    /\ conns' = [conns EXCEPT ![e_accept] = "serving"]
    /\ e_accept' = 0
    /\ UNCHANGED << e_pc, e_closed, e_pending, e_lost >>
    /\ UNCHANGED beyond_endpoint_vars

\* run_server, line 197, and subcommand_server, line 179: the handshake
\* fails, `?` returns the error from run_server and result.unwrap() panics:
\* the process ends without endpoint.close
HandshakeFails ==
    /\ e_pc = "serving"
    /\ e_accept # 0
    /\ conns' = close_connections([conns EXCEPT ![e_accept] = "failed"])
    /\ e_accept' = 0
    /\ e_pc' = "panicked"
    /\ UNCHANGED << e_closed, e_pending, e_lost >>
    /\ UNCHANGED beyond_endpoint_vars

\* run_server, lines 204-206: run_server_proxy of one connection returns an
\* error, which is logged
ServerProxyFails(c) ==
    /\ conns[c] = "serving"
    /\ conns' = [conns EXCEPT ![c] = "failed"]
    /\ UNCHANGED << e_pc, e_accept, e_closed, e_pending, e_lost >>
    /\ UNCHANGED beyond_endpoint_vars

\* proxy_server: a peer task of the connection has a packet for the tunnel
PeerTaskQueues(c) ==
    /\ conns[c] = "serving"
    /\ e_pc \in {"serving", "interrupted"}
    /\ e_pending[c] < MaxPending
    /\ e_pending' = [e_pending EXCEPT ![c] = @ + 1]
    /\ UNCHANGED << e_pc, e_accept, e_closed, conns, e_lost >>
    /\ UNCHANGED beyond_endpoint_vars

\* proxy_server, lines 108-112: send_datagram on the open connection
PeerTaskSends(c) ==
    /\ conns[c] = "serving"
    /\ e_pending[c] > 0
    /\ e_pending' = [e_pending EXCEPT ![c] = @ - 1]
    /\ UNCHANGED << e_pc, e_accept, e_closed, conns, e_lost >>
    /\ UNCHANGED beyond_endpoint_vars

\* proxy_server, lines 110-112: send_datagram fails on a connection that is
\* closed or lost; the task returns with what it still held
PeerTaskSendFails(c) ==
    /\ conns[c] \in {"closed", "failed"}
    /\ e_pending[c] > 0
    /\ e_lost' = e_lost + e_pending[c]
    /\ e_pending' = [e_pending EXCEPT ![c] = 0]
    /\ UNCHANGED << e_pc, e_accept, e_closed, conns >>
    /\ UNCHANGED beyond_endpoint_vars

\* proxy_server, lines 90, 116: a peer task ends with a socket error
PeerTaskFails(c) ==
    /\ conns[c] = "serving"
    /\ e_pending[c] > 0
    /\ e_pending' = [e_pending EXCEPT ![c] = 0]
    /\ UNCHANGED << e_pc, e_accept, e_closed, conns, e_lost >>
    /\ UNCHANGED beyond_endpoint_vars

\* subcommand_server, lines 178-181: Ctrl-C ends the first select!; the
\* run_server future, and a handshake it awaits, is dropped
CtrlC ==
    /\ e_pc = "serving"
    /\ e_pc' = "interrupted"
    /\ e_accept' = 0
    /\ conns' = IF e_accept # 0 THEN [conns EXCEPT ![e_accept] = "closed"] ELSE conns
    /\ UNCHANGED << e_closed, e_pending, e_lost >>
    /\ UNCHANGED beyond_endpoint_vars

\* subcommand_server, line 183: endpoint.close(0u32.into(), b"quit")
EndpointClose ==
    /\ e_pc = "interrupted"
    /\ e_pc' = "waiting"
    /\ e_closed' = Append(e_closed, [code |-> 0, reason |-> "quit"])
    /\ conns' = close_connections(conns)
    /\ UNCHANGED << e_accept, e_pending, e_lost >>
    /\ UNCHANGED beyond_endpoint_vars

\* subcommand_server, lines 185-190: wait_idle completes or Ctrl-C arrives
\* again, and the process ends
Terminate ==
    /\ e_pc = "waiting"
    /\ \E cause \in {"wait_idle", "ctrl_c"} : e_pc' = "terminated"
    /\ UNCHANGED << e_accept, e_closed, conns, e_pending, e_lost >>
    /\ UNCHANGED beyond_endpoint_vars

EndpointNext ==
    \/ \E c \in ConnIds : IncomingConnection(c)
    \/ HandshakeSucceeds
    \/ HandshakeFails
    \/ \E c \in ConnIds : ServerProxyFails(c)
    \/ \E c \in ConnIds : PeerTaskQueues(c)
    \/ \E c \in ConnIds : PeerTaskSends(c)
    \/ \E c \in ConnIds : PeerTaskSendFails(c)
    \/ \E c \in ConnIds : PeerTaskFails(c)
    \/ CtrlC
    \/ EndpointClose
    \/ Terminate

EndpointSpec == Init /\ [][EndpointNext]_vars

(***************************************************************************)
(* The tunnel stream of one peer: the client-side task transfer_world_data *)
(* with the shared chunk cache, and the server-side task that serves it.   *)
(* A chunk is a number; the world description has two files, the first     *)
(* made of the chunks 1 .. MaxChunks - 1, the second of MaxChunks.         *)
(***************************************************************************)
\* blake3::hash; distinct chunks have distinct hashes
blake3_hash(chunk) == 1000 + chunk

\* the key a chunk is requested under, and a chunk that does not hash to key
KeyOf(chunk) == blake3_hash(chunk)
GoodChunk(key) == key - 1000
CorruptChunk(key) == key - 500

\* world_desc.files[..].content_chunks
FileChunks(file) ==
    IF file = 1 THEN [i \in 1 .. (MaxChunks - 1) |-> KeyOf(i)] ELSE << KeyOf(MaxChunks) >>

FileCount == 2

Range(seq) == {seq[i] : i \in 1 .. Len(seq)}

\* WorldReconstructor::reconstruct_world_file: Ok when every chunk of the
\* file is in local_cache, Err(NeedChunks) otherwise
reconstruct_world_file(file, local) == Range(FileChunks(file)) \subseteq local

\* ChunkCache::get_chunks_batched: the pending keys that are resident go to
\* local_cache, up to max_batch of the others are reserved into a Batch
get_chunks_batched(pending, local, cache, max_batch) ==
    LET resident == {entry.key : entry \in cache}
        missing == SelectSeq(pending, LAMBDA key : key \notin resident)
        batch == SubSeq(missing, 1, Min({max_batch, Len(missing)}))
    IN [local |-> local \cup (Range(pending) \cap resident),
        batch |-> batch,
        pending |-> SubSeq(missing, Len(batch) + 1, Len(missing))]

\* Batch::fulfill: the chunks are inserted under the keys of the batch
fulfill(cache, batch, chunks) ==
    cache \cup {[key |-> batch[i], chunk |-> chunks[i]] :
                    i \in 1 .. Min({Len(batch), Len(chunks)})}

\* the first position of the response whose chunk does not hash to its key,
\* 0 if there is none
FirstMismatch(batch, chunks) ==
    LET bad == {i \in 1 .. Min({Len(batch), Len(chunks)}) :
                    blake3_hash(chunks[i]) # batch[i]}
    IN IF bad = {} THEN 0 ELSE Min(bad)

\* the checked chunks are not inserted into local_cache
on_send_chunks_without_insert(local, cache, batch, chunks) ==
    LET mismatch == FirstMismatch(batch, chunks)
    IN IF mismatch # 0
       THEN [ok |-> FALSE, local |-> local, cache |-> cache]
       ELSE [ok |-> TRUE, local |-> local, cache |-> fulfill(cache, batch, chunks)]

\* the batch is fulfilled before the hashes are looked at
on_send_chunks_fulfilled_first(local, cache, batch, chunks) ==
    LET mismatch == FirstMismatch(batch, chunks)
    IN [ok |-> mismatch = 0,
        local |-> local \cup Range(batch),
        cache |-> fulfill(cache, batch, chunks)]

\* transfer_world_data, lines 327-337: the chunks are checked in order and go
\* to local_cache up to the first mismatch, which returns the error; only a
\* response without mismatch fulfils the batch
on_send_chunks(local, cache, batch, chunks) ==
    LET mismatch == FirstMismatch(batch, chunks)
    IN IF mismatch # 0
       THEN [ok |-> FALSE,
             local |-> local \cup {batch[i] : i \in 1 .. (mismatch - 1)},
             cache |-> cache]
       ELSE [ok |-> TRUE,
             local |-> local \cup {batch[i] : i \in 1 .. Min({Len(batch), Len(chunks)})},
             cache |-> fulfill(cache, batch, chunks)]

\* the messages of a tunnel stream: the preamble and the three payloads
PeerIdPreamble(peer_id) == [type |-> "PeerId", body |-> << peer_id >>]
WorldReadyMessage == [type |-> "WorldReady", body |-> <<>>]
RequestChunksMessage(requested_chunks) ==
    [type |-> "RequestChunks", body |-> requested_chunks]
SendChunksMessage(chunks) == [type |-> "SendChunks", body |-> chunks]

\* the keys of the world description
WorldKeys == Range(FileChunks(1)) \cup Range(FileChunks(2))

\* the chunk maps a tunnel server may serve from: under each key of the world
\* description its chunk, or bytes that do not hash to the key
ServerChunkMaps ==
    {[key \in WorldKeys |-> IF key \in bad THEN CorruptChunk(key) ELSE GoodChunk(key)] :
        bad \in SUBSET WorldKeys}

\* the chunks are collected in the reverse of the request's order
serve_request_reversed(chunks, requested_chunks) ==
    [i \in 1 .. Len(requested_chunks) |->
        chunks[requested_chunks[Len(requested_chunks) + 1 - i]]]

\* server transfer_world_data, lines 375-379: one chunk per requested key, in
\* the order of the request, each looked up in the chunk map
serve_request(chunks, requested_chunks) ==
    [i \in 1 .. Len(requested_chunks) |-> chunks[requested_chunks[i]]]

stream_client_vars == << t_pc, t_file, all_chunks, local_cache, t_batch, t_response,
                         t_requests, t_world_sent, t_fulfilled, t_read, chunk_cache,
                         cache_dirty >>

stream_server_vars == << st_pc, st_read, server_chunks >>

\* proxy_client, lines 101-102: the stream is opened and the peer id written,
\* or the task returns with the error
WritePreamble ==
    /\ t_pc = "open_stream"
    /\ \/ /\ t_pc' = "read_world_ready"
          /\ \E peer_id \in PeerIds : stream_up' = << PeerIdPreamble(peer_id) >>
       \/ /\ t_pc' = "init_error"
          /\ UNCHANGED stream_up
    /\ UNCHANGED << t_file, all_chunks, local_cache, t_batch, t_response, t_requests,
                    t_world_sent, t_fulfilled, t_read, chunk_cache, cache_dirty >>
    /\ UNCHANGED << stream_down, stream_server_vars >>
    /\ UNCHANGED beyond_transfer_vars

\* run_server_proxy, lines 34-58: the stream is accepted, the peer id read and
\* the stream given to the peer's proxy_server task
ReadPreamble ==
    /\ st_pc = "accept"
    /\ st_read < Len(stream_up)
    /\ stream_up[st_read + 1].type = "PeerId"
    /\ st_read' = st_read + 1
    /\ st_pc' = "proxying"
    /\ UNCHANGED << server_chunks, stream_up, stream_down, stream_client_vars >>
    /\ UNCHANGED beyond_transfer_vars

\* finalize_world, lines 294-324: deconstruct_world has built the chunk map,
\* the stream is taken out of the proxy state and transfer_world_data
\* spawned with both
SpawnTransfer ==
    /\ st_pc = "proxying"
    /\ st_pc' = "spawned"
    /\ server_chunks' \in ServerChunkMaps
    /\ UNCHANGED << st_read, stream_up, stream_down, stream_client_vars >>
    /\ UNCHANGED beyond_transfer_vars

\* proxy_server returns without having finalized a world: the stream is
\* dropped with the proxy state
CompStreamDropped ==
    /\ st_pc = "proxying"
    /\ st_pc' = "dropped"
    /\ UNCHANGED << st_read, server_chunks, stream_up, stream_down, stream_client_vars >>
    /\ UNCHANGED beyond_transfer_vars

\* server transfer_world_data, lines 360-367: the WorldReadyMessage is
\* encoded and written, or the error returned
SendWorldReady ==
    /\ st_pc = "spawned"
    /\ \/ /\ st_pc' = "serving"
          /\ stream_down' = Append(stream_down, WorldReadyMessage)
       \/ /\ st_pc' = "failed"
          /\ UNCHANGED stream_down
    /\ UNCHANGED << st_read, server_chunks, stream_up, stream_client_vars >>
    /\ UNCHANGED beyond_transfer_vars

\* server transfer_world_data, lines 371-388: one iteration of the loop: a
\* request is read and its response written, or the error returned
AnswerRequest ==
    /\ st_pc = "serving"
    /\ st_read < Len(stream_up)
    /\ st_read' = st_read + 1
    /\ LET request == stream_up[st_read + 1]
       IN IF Range(request.body) \subseteq DOMAIN server_chunks
          THEN \/ /\ stream_down' =
                         Append(stream_down,
                                SendChunksMessage(serve_request(server_chunks,
                                                                request.body)))
                  /\ UNCHANGED st_pc
               \/ /\ st_pc' = "failed"
                  /\ UNCHANGED stream_down
          ELSE /\ st_pc' = "panicked"
               /\ UNCHANGED stream_down
    /\ UNCHANGED << server_chunks, stream_up, stream_client_vars >>
    /\ UNCHANGED beyond_transfer_vars

\* server transfer_world_data, lines 371 and 390-401: read_message fails, the
\* loop ends and the task returns Ok
ServerLoopEnds ==
    /\ st_pc = "serving"
    /\ st_read = Len(stream_up)
    /\ st_pc' = "returned_ok"
    /\ UNCHANGED << st_read, server_chunks, stream_up, stream_down, stream_client_vars >>
    /\ UNCHANGED beyond_transfer_vars

\* transfer_world_data, lines 260-283: the WorldReadyMessage is read, or the
\* stream ends before it
ReadWorldReady ==
    /\ t_pc = "read_world_ready"
    /\ \/ /\ t_read < Len(stream_down)
          /\ stream_down[t_read + 1].type = "WorldReady"
          /\ t_read' = t_read + 1
          /\ t_pc' = "reconstruct"
          /\ all_chunks' = FileChunks(1) \o FileChunks(2)
       \/ /\ st_pc \in {"dropped", "failed"}
          /\ t_read = Len(stream_down)
          /\ t_pc' = "returned_ok"
          /\ UNCHANGED << all_chunks, t_read >>
    /\ UNCHANGED << t_file, local_cache, t_batch, t_response, t_requests, t_world_sent,
                    t_fulfilled, chunk_cache, cache_dirty >>
    /\ UNCHANGED << stream_up, stream_down, stream_server_vars >>
    /\ UNCHANGED beyond_transfer_vars

\* transfer_world_data, lines 295-302: the file is reconstructed and its data
\* sent to the peer task
ReconstructFile ==
    /\ t_pc = "reconstruct"
    /\ reconstruct_world_file(t_file, local_cache)
    /\ t_world_sent' = t_world_sent + 1
    /\ t_file' = t_file + 1
    /\ t_pc' = IF t_file = FileCount THEN "finish" ELSE "reconstruct"
    /\ UNCHANGED << all_chunks, local_cache, t_batch, t_response, t_requests, t_fulfilled,
                    t_read, chunk_cache, cache_dirty >>
    /\ UNCHANGED << stream_up, stream_down, stream_server_vars >>
    /\ UNCHANGED beyond_transfer_vars

\* transfer_world_data, lines 303-315: chunks are missing: the next batch is
\* taken from the cache and requested
RequestChunks ==
    /\ t_pc = "reconstruct"
    /\ ~reconstruct_world_file(t_file, local_cache)
    /\ IF all_chunks = <<>>
       THEN /\ t_pc' = "panicked"
            /\ UNCHANGED << all_chunks, local_cache, t_batch, t_requests, stream_up >>
       ELSE LET got == get_chunks_batched(all_chunks, local_cache, chunk_cache, MAX_BATCH)
            IN /\ all_chunks' = got.pending
               /\ local_cache' = got.local
               /\ t_batch' = got.batch
               /\ t_requests' = IF got.batch # <<>> THEN t_requests + 1 ELSE t_requests
               /\ stream_up' = IF got.batch # <<>>
                               THEN Append(stream_up, RequestChunksMessage(got.batch))
                               ELSE stream_up
               /\ t_pc' = IF got.batch # <<>> THEN "await_response" ELSE "reconstruct"
    /\ UNCHANGED << t_file, t_response, t_world_sent, t_fulfilled, t_read, chunk_cache,
                    cache_dirty >>
    /\ UNCHANGED << stream_down, stream_server_vars >>
    /\ UNCHANGED beyond_transfer_vars

\* transfer_world_data, lines 317-337: the response is read and checked
ReceiveChunks ==
    /\ t_pc = "await_response"
    /\ t_read < Len(stream_down)
    /\ t_read' = t_read + 1
    /\ \E chunks \in {stream_down[t_read + 1].body} :
           /\ t_response' = chunks
           /\ \E r \in {on_send_chunks(local_cache, chunk_cache, t_batch, chunks)} :
                  /\ local_cache' = r.local
                  /\ chunk_cache' = r.cache
                  /\ t_fulfilled' = IF r.ok THEN t_fulfilled + 1 ELSE t_fulfilled
                  /\ t_pc' = IF r.ok THEN "reconstruct" ELSE "hash_mismatch"
    /\ t_batch' = <<>>
    /\ UNCHANGED << t_file, all_chunks, t_requests, t_world_sent, cache_dirty >>
    /\ UNCHANGED << stream_up, stream_down, stream_server_vars >>
    /\ UNCHANGED beyond_transfer_vars

\* transfer_world_data, lines 315-325: the stream fails or the response does
\* not decode: the error is returned
StreamFails ==
    /\ t_pc = "await_response"
    /\ t_pc' = "stream_error"
    /\ t_batch' = <<>>
    /\ UNCHANGED << t_file, all_chunks, local_cache, t_response, t_requests, t_world_sent,
                    t_fulfilled, t_read, chunk_cache, cache_dirty >>
    /\ UNCHANGED << stream_up, stream_down, stream_server_vars >>
    /\ UNCHANGED beyond_transfer_vars

\* transfer_world_data, lines 353-362: mark_dirty, finalize_world_file and
\* the last piece
FinishWorld ==
    /\ t_pc = "finish"
    /\ cache_dirty' = TRUE
    /\ \/ /\ t_pc' = "returned_ok"
          /\ t_world_sent' = t_world_sent + 1
       \/ /\ t_pc' = "finalize_error"
          /\ UNCHANGED t_world_sent
    /\ UNCHANGED << t_file, all_chunks, local_cache, t_batch, t_response, t_requests,
                    t_fulfilled, t_read, chunk_cache >>
    /\ UNCHANGED << stream_up, stream_down, stream_server_vars >>
    /\ UNCHANGED beyond_transfer_vars

\* the transfer of another peer fulfils a batch of its own with this chunk
OtherPeerFulfills(chunk) ==
    /\ t_pc \in {"read_world_ready", "reconstruct", "await_response"}
    /\ KeyOf(chunk) \notin Range(t_batch)
    /\ [key |-> KeyOf(chunk), chunk |-> chunk] \notin chunk_cache
    /\ chunk_cache' = chunk_cache \cup {[key |-> KeyOf(chunk), chunk |-> chunk]}
    /\ UNCHANGED << t_pc, t_file, all_chunks, local_cache, t_batch, t_response, t_requests,
                    t_world_sent, t_fulfilled, t_read, cache_dirty >>
    /\ UNCHANGED << stream_up, stream_down, stream_server_vars >>
    /\ UNCHANGED beyond_transfer_vars

\* ChunkCache::start_writer: the saver finds the cache dirty and saves it
SaverSaves ==
    /\ cache_dirty
    /\ cache_dirty' = FALSE
    /\ UNCHANGED << t_pc, t_file, all_chunks, local_cache, t_batch, t_response, t_requests,
                    t_world_sent, t_fulfilled, t_read, chunk_cache >>
    /\ UNCHANGED << stream_up, stream_down, stream_server_vars >>
    /\ UNCHANGED beyond_transfer_vars

TransferNext ==
    \/ WritePreamble
    \/ ReadPreamble
    \/ SpawnTransfer
    \/ CompStreamDropped
    \/ SendWorldReady
    \/ AnswerRequest
    \/ ServerLoopEnds
    \/ ReadWorldReady
    \/ ReconstructFile
    \/ RequestChunks
    \/ ReceiveChunks
    \/ StreamFails
    \/ FinishWorld
    \/ \E chunk \in 1 .. MaxChunks : OtherPeerFulfills(chunk)
    \/ SaverSaves

TransferSpec == Init /\ [][TransferNext]_vars

(***************************************************************************)
(* The downloader's block arithmetic for every u32 world_size and          *)
(* aux_size.  A build with overflow checks panics where an operation       *)
(* overflows, one without computes the wrapped value.                      *)
(***************************************************************************)
\* the records a game server can announce
AnnouncedWorldInfos ==
    [world_size : 0 .. U32_MAX, aux_size : 0 .. U32_MAX, world_crc : {1}, opaque : {9}]

\* on_packet_from_server in WaitingForWorld, lines 170-173: the heartbeat
\* carries a MapReadyForDownload record and the download is set up
AnnounceWorld ==
    /\ b_pc = "WaitingForWorld"
    /\ \E world_info \in AnnouncedWorldInfos :
           /\ b_world_info' = world_info
           /\ \/ /\ block_counts_overflow(world_info)
                 /\ b_pc' = "panicked"
                 /\ UNCHANGED b_state
              \/ \E r \in {transition_to_downloading_world(
                               ServerProxyState_new, HeartbeatPacket(world_info),
                               world_info, <<>>)} :
                     /\ b_pc' = r.self.phase
                     /\ b_state' = r.self.state
    /\ UNCHANGED b_aux_range
    /\ UNCHANGED beyond_arith_vars

\* finalize_world, lines 280-290: the blocks have arrived; the offset of the
\* aux data and the end of its slice are computed
SliceAuxData ==
    /\ b_pc = "DownloadingWorld"
    /\ \E range \in {aux_data_range(b_state)} :
           \/ /\ range.overflow
              /\ b_pc' = "panicked"
              /\ UNCHANGED b_aux_range
           \/ /\ b_pc' = "Done"
              /\ b_aux_range' = << range.offset, range.end >>
    /\ UNCHANGED << b_world_info, b_state >>
    /\ UNCHANGED beyond_arith_vars

ArithNext ==
    \/ AnnounceWorld
    \/ SliceAuxData

ArithSpec == Init /\ [][ArithNext]_vars

(***************************************************************************)
(* Properties of the downloader.                                           *)
(***************************************************************************)
\* the iteration that just ran took the socket arm in phase ph ...
HandledPacket == pc = "drain" /\ select_arm = "socket"

\* ... as a step: select! took the socket arm and the handler returned
HandlerStep == pc = "select" /\ pc' = "drain" /\ select_arm' = "socket"

IsTransferBlock(packet) ==
    Len(packet) >= 1 /\ packet[1] = PacketType_TransferBlock

\* a ServerToClientHeartbeat that carries a MapReadyForDownload record
IsMapReadyHeartbeat(packet) ==
    /\ Len(packet) >= 2 + MapReadyLen
    /\ packet[1] = PacketType_ServerToClientHeartbeat
    /\ packet[2] # 0

ToClient(packets) == SelectSeq(packets, LAMBDA p : p.dir = "ToClient")

\* C1: in DownloadingWorld the set of in-flight block requests never holds more
\* than 16 block ids, whatever the game server sends.
C1_InflightAtMostSixteen ==
    Cardinality(state.inflight_block_requests) <= 16

\* C1 witness: a block was accepted, the window was topped up to 16 and blocks
\* are still queued.
C1_Witness ==
    /\ HandledPacket
    /\ phase = "DownloadingWorld"
    /\ state.received_blocks # <<>>
    /\ Cardinality(state.inflight_block_requests) = 16
    /\ state.block_request_queue # {}

\* C2: the phase only advances WaitingForWorld -> DownloadingWorld -> Done, one
\* phase at a time; DownloadingWorld is entered only by the handler of a
\* ServerToClientHeartbeat carrying a MapReadyForDownload record; Done is final.
C2_PhaseOrder ==
    [][/\ phase = "WaitingForWorld" => phase' \in {"WaitingForWorld", "DownloadingWorld"}
       /\ phase = "DownloadingWorld" => phase' \in {"DownloadingWorld", "Done"}
       /\ phase = "Done" => phase' = "Done"
       /\ (phase # "DownloadingWorld" /\ phase' = "DownloadingWorld")
              => (HandlerStep /\ IsMapReadyHeartbeat(in_packet'))]_vars

\* C2 witness: a MapReadyForDownload heartbeat was handled in Done, which it
\* left unchanged.
C2_Witness ==
    /\ HandledPacket
    /\ phase = "Done"
    /\ IsMapReadyHeartbeat(in_packet)
    /\ fin.outcome # "none"

\* C3 (as claimed): a peer in DownloadingWorld never rests with the in-flight
\* set and the request queue both empty: it has finalized and left the phase.
C3_EmptySetsFinalize ==
    phase = "DownloadingWorld"
        => state.inflight_block_requests \cup state.block_request_queue # {}

\* C5: at finalize the blocks are concatenated in ascending block_id order and
\* every id of 0..total_blocks occurs exactly once, whatever the arrival order.
C5_ConcatenatedInIdOrder ==
    fin.outcome # "none" =>
        /\ Len(fin.blocks) = TotalBlocks(fin.world_info)
        /\ \A i \in 1 .. Len(fin.blocks) : fin.blocks[i].block_id = i - 1
        /\ Len(fin.received_blocks) = Len(fin.blocks)
        /\ \A i \in 1 .. Len(fin.blocks) :
               \E j \in 1 .. Len(fin.received_blocks) : fin.received_blocks[j] = fin.blocks[i]
        /\ fin.received_data = Concat([i \in 1 .. Len(fin.blocks) |-> fin.blocks[i].data])

\* C5 witness: three blocks were received, the last announced one first.
C5_Witness ==
    /\ fin.outcome # "none"
    /\ Len(fin.received_blocks) >= 3
    /\ fin.received_blocks[1].block_id = Len(fin.received_blocks) - 1
    /\ fin.received_blocks[2].block_id = 0

\* the bytes of a region as the game server holds them
RegionBytes(first_byte, size) == [k \in 1 .. size |-> first_byte + k - 1]

\* C6 (as claimed): when every block carries TRANSFER_BLOCK_SIZE bytes except
\* the last block of the world region and the last block of the aux region,
\* which carry only the remaining bytes, finalize passes its length check and
\* world_data and aux_data are exactly the bytes of the two regions.
C6_ShortTailsHandled ==
    (/\ fin.outcome # "none"
     /\ \A i \in 1 .. Len(fin.blocks) :
            fin.blocks[i].data = BlockData(fin.world_info, i - 1, FALSE))
        => /\ fin.outcome # "length_check_failed"
           /\ fin.world_data = RegionBytes(100, fin.world_info.world_size)
           /\ fin.aux_data = RegionBytes(200, fin.world_info.aux_size)

\* C7: when finalize's length check fails or the deduplicator reports an error
\* the peer is in Done from then on, the stream task was never spawned (the
\* stream is still owned by the peer) and no WorldReadyMessage is written.
C7_FailedFinalizeEndsInDone ==
    fin.outcome \in {"length_check_failed", "deconstruct_failed"}
        => /\ phase = "Done"
           /\ transfer_task = "none"
           /\ comp_stream = TRUE

\* C7 witness: the length check failed, and the peer has since forwarded a
\* packet in Done.
C7_Witness ==
    /\ fin.outcome = "length_check_failed"
    /\ fin.received_blocks # <<>>
    /\ HandledPacket
    /\ ~IsTransferBlock(in_packet)
    /\ out_packets = << OutPacket(in_packet, "ToClient") >>

\* the step in which finalize_world succeeds
FinalizeSucceeds ==
    HandlerStep /\ phase = "DownloadingWorld" /\ phase' = "Done" /\ fin'.outcome = "ok"

\* the positions (from 0) at which needle occurs in packet
Occurrences(packet, needle) ==
    {pos \in 0 .. (Len(packet) - Len(needle)) :
        \A k \in 1 .. Len(needle) : packet[pos + k] = needle[k]}

\* C8 (as claimed): in DownloadingWorld nothing is sent towards the client;
\* every packet of the game server that is not a TransferBlock is appended to
\* the held packets, a TransferBlock never is; when finalize succeeds the held
\* packets are forwarded once each, in arrival order, the triggering
\* MapReadyForDownload packet first.
C8_HeldThenForwardedOnce ==
    [][/\ (HandlerStep /\ phase = "DownloadingWorld" /\ phase' = "DownloadingWorld")
              => /\ ToClient(out_packets') = <<>>
                 /\ state'.held_packets =
                        IF IsTransferBlock(in_packet') THEN state.held_packets
                        ELSE Append(state.held_packets, in_packet')
       /\ FinalizeSucceeds
              => /\ IsMapReadyHeartbeat(state.held_packets[1])
                 /\ Len(ToClient(out_packets')) = Len(state.held_packets)
                 /\ \A i \in 1 .. Len(state.held_packets) :
                        /\ Len(ToClient(out_packets')[i].data) = Len(state.held_packets[i])
                        /\ ToClient(out_packets')[i].data # state.held_packets[i]
                               => Occurrences(state.held_packets[i],
                                       MapReadyForDownloadData_encode(state.world_info)) # {}]_vars

C10_ForwardedVerbatim ==
    [][(/\ HandlerStep
        /\ phase \in {"WaitingForWorld", "Done"}
        /\ ~(phase = "WaitingForWorld" /\ IsMapReadyHeartbeat(in_packet')))
          => /\ out_packets' = Append(out_packets, OutPacket(in_packet', "ToClient"))
             /\ out_packets = <<>>
             /\ phase' = phase
             /\ state' = state
             /\ comp_stream' = comp_stream
             /\ fin' = fin
             /\ transfer_task' = transfer_task]_vars

\* C10 witness: a TransferBlock that arrives in Done was forwarded like any
\* other packet.
C10_Witness ==
    /\ HandledPacket
    /\ phase = "Done"
    /\ IsTransferBlock(in_packet)
    /\ fin.outcome = "ok"
    /\ state = NoState
    /\ out_packets = << OutPacket(in_packet, "ToClient") >>

\* a download is under way and blocks are awaited
AwaitingBlocks ==
    phase = "DownloadingWorld" /\ state.inflight_block_requests # {}

ServerKeepsSending ==
    []<><<LiveRecvFromServer /\ ~IsTransferBlock(in_packet')>>_vars

\* the handler of a packet other than a TransferBlock, in DownloadingWorld:
\* more than 100 ms after the last accepted block it sends one request for
\* every in-flight block id, in ascending order, and nothing else; up to
\* 100 ms after it, it sends nothing
ResendOnNextPacket ==
    (HandlerStep /\ phase = "DownloadingWorld" /\ ~IsTransferBlock(in_packet'))
        => /\ state'.inflight_block_requests = state.inflight_block_requests
           /\ state'.last_block_elapsed = state.last_block_elapsed
           /\ IF state.last_block_elapsed > 100
              THEN /\ Len(out_packets') = Cardinality(state.inflight_block_requests)
                   /\ RequestedIds(out_packets') = state.inflight_block_requests
                   /\ \A i \in 1 .. Len(out_packets') :
                          /\ out_packets'[i].dir = "ToServer"
                          /\ \A j \in 1 .. Len(out_packets') :
                                 i < j => ReadU32LE(out_packets'[i].data, 1)
                                              < ReadU32LE(out_packets'[j].data, 1)
              ELSE out_packets' = <<>>

ClientHandlerStep == c_pc = "select" /\ c_pc' = "drain" /\ c_arm' = "client"

\* a packet whose header and TransferBlockRequest body both decode
IsDecodableRequest(packet) ==
    Len(packet) >= 5 /\ packet[1] = PacketType_TransferBlockRequest

\* the bytes of block block_id in the reconstructed-world buffer
BufferBlock(buffer, block_id) ==
    [j \in 1 .. TRANSFER_BLOCK_SIZE |-> buffer[block_id * TRANSFER_BLOCK_SIZE + j]]

\* C11: a decodable TransferBlockRequest of the game client is either answered
\* with exactly one TransferBlock towards the client, carrying the
\* TRANSFER_BLOCK_SIZE bytes at offset block_id * TRANSFER_BLOCK_SIZE of the
\* buffer, when the whole block is in the buffer, or its block id is added to
\* pending_requests and nothing is sent; it is never forwarded.  Every other
\* packet of the game client is forwarded over the tunnel unchanged.
C11_RequestsAnsweredOrQueued ==
    [][ClientHandlerStep =>
        LET packet == c_in'
            block_id == ReadU32LE(packet, 1)
            buffer == c_state.world_data
            pending == c_state.pending_requests
        IN IF IsDecodableRequest(packet)
           THEN IF block_id * TRANSFER_BLOCK_SIZE + TRANSFER_BLOCK_SIZE <= Len(buffer)
                THEN /\ c_out_packets' =
                            << [data |-> << PacketType_TransferBlock >> \o U32LE(block_id)
                                             \o BufferBlock(buffer, block_id),
                                dir |-> "ToClient"] >>
                     /\ c_state'.pending_requests = pending
                ELSE /\ c_out_packets' = <<>>
                     /\ c_state'.pending_requests = pending \cup {block_id}
           ELSE /\ c_out_packets' = << [data |-> packet, dir |-> "ToServer"] >>
                /\ c_state'.pending_requests = pending]_vars

\* C11 witness: with three bytes in the buffer and block 1 pending, a request
\* for block 0 was answered with the first block and nothing was forwarded.
C11_Witness ==
    /\ c_pc = "drain"
    /\ c_arm = "client"
    /\ c_in = ClientRequest(0)
    /\ Len(c_state.world_data) = 3
    /\ c_state.pending_requests = {1}
    /\ c_out_packets = << OutPacket(<< PacketType_TransferBlock >> \o U32LE(0)
                                        \o << 100, 101 >>, "ToClient") >>

\* the task took a piece of reconstructed world from the stream task (a step)
WorldDataStep == c_pc = "select" /\ c_pc' = "drain" /\ c_arm' = "world_data"

\* the pending block ids whose whole block lies inside buffer
Serviceable(pending, buffer) ==
    {id \in pending : id * TRANSFER_BLOCK_SIZE + TRANSFER_BLOCK_SIZE <= Len(buffer)}

\* C12: each time new world bytes are appended to the buffer, every pending
\* block id that has become serviceable is answered with its TransferBlock
\* exactly once and leaves pending_requests; pending_requests afterwards holds
\* just the ids that are still unserviceable, and the swap set is empty.
C12_PendingServedOnAppend ==
    [][WorldDataStep =>
        LET pending == c_state.pending_requests
            buffer == c_state'.world_data
            served == Serviceable(pending, buffer)
        IN /\ buffer = c_state.world_data \o c_in'
           /\ Len(c_out_packets') = Cardinality(served)
           /\ \A id \in served :
                  \E i \in 1 .. Len(c_out_packets') :
                      c_out_packets'[i] =
                          [data |-> << PacketType_TransferBlock >> \o U32LE(id)
                                        \o BufferBlock(buffer, id),
                           dir |-> "ToClient"]
           /\ c_state'.pending_requests = pending \ served
           /\ c_state'.pending_requests_swap = {}]_vars

\* C12 witness: blocks 0 and 1 were pending, the buffer grew to three bytes:
\* block 0 was answered, block 1 stays pending.
C12_Witness ==
    /\ c_pc = "drain"
    /\ c_arm = "world_data"
    /\ Len(c_state.world_data) = 3
    /\ c_state.pending_requests = {1}
    /\ c_state.pending_requests_swap = {}
    /\ c_out_packets = << OutPacket(<< PacketType_TransferBlock >> \o U32LE(0)
                                        \o << 100, 101 >>, "ToClient") >>

\* the packets of the game client on their way through the task, oldest
\* first: sent over the tunnel, waiting in out_packets, waiting in the queue
ClientPipeline ==
    tunnel_log
        \o [i \in 1 .. Len(ToServer(c_out_packets)) |-> ToServer(c_out_packets)[i].data]
        \o client_receive_queue

\* the arrival numbers of the numbered packets of a sequence, in its order
ArrivalNumbers(packets) ==
    LET numbered == SelectSeq(packets, LAMBDA p : Len(p) = 2)
    IN [i \in 1 .. Len(numbered) |-> numbered[i][2]]

StrictlyIncreasing(numbers) ==
    \A i, j \in 1 .. Len(numbers) : i < j => numbers[i] < numbers[j]

\* C16: the packets of one source address are handled by its peer task in
\* their arrival order, and those that are forwarded go over the tunnel in
\* that same order, none of them twice: the queue is taken from its head, and
\* along tunnel, out_packets and queue the arrival numbers strictly increase.
C16_ForwardedInArrivalOrder ==
    /\ [][ClientHandlerStep =>
            /\ client_receive_queue # <<>>
            /\ c_in' = Head(client_receive_queue)
            /\ client_receive_queue' = Tail(client_receive_queue)]_vars
    /\ [](StrictlyIncreasing(ArrivalNumbers(ClientPipeline)))

\* C16 witness: two packets of the game client that were queued together
\* went over the tunnel in the order they arrived, the task having taken its
\* other arms in between.
C16_Witness ==
    /\ tunnel_log = << ClientOther(1), ClientRequestTruncated(2) >>
    /\ c_state.world_data # <<>>
    /\ c_pc = "drain"
    /\ c_arm = "server"

(***************************************************************************)
(* Properties of the dispatchers.                                          *)
(***************************************************************************)
\* the client-side dispatcher holds no routing entry for peer id
NoClientEntry(id) ==
    /\ id \notin id_to_queue
    /\ \A addr \in PeerAddrs : addr_to_queue[addr] # id

\* C13 (as claimed): once a per-peer task has exited, the dispatcher's routing
\* entries for that peer are removed: addr_to_queue and id_to_queue on the
\* client side, outgoing_queues on the server side, come to hold no entry for
\* a peer whose task has exited.
C13_ExitedPeersLeaveNoEntry ==
    \A id \in PeerIds :
        /\ (c_task[id] = "exited") ~> NoClientEntry(id)
        /\ (id \in outgoing_queues /\ s_live[id] = 0) ~> (id \notin outgoing_queues)

\* C14: on either side of the tunnel connection a peer id never has more than
\* one live per-peer task: the client-side dispatcher gives each peer id to
\* one task only, also when an address reappears after its task exited, and
\* the server-side dispatcher never has two live tasks of one peer id.
C14_OneLiveTaskPerPeerId ==
    \A id \in PeerIds :
        /\ c_spawned[id] <= 1
        /\ s_live[id] <= 1

\* C14 witness: the task of address a1 exited and the address came back: it
\* got the fresh peer id 1, whose server-side task runs next to the still
\* live server-side task of peer id 0.
C14_Witness ==
    /\ c_task[0] = "exited"
    /\ addr_to_queue["a1"] = 1
    /\ addr_to_queue["a2"] = NoPeer
    /\ c_task[1] = "running"
    /\ s_live[0] = 1
    /\ s_live[1] = 1

\* the client-side dispatcher handled a UDP packet (a step)
ClientDispatchStep == d_arrivals' = d_arrivals + 1

\* the server-side dispatcher routed a datagram of the tunnel (a step)
ServerDispatchStep == s_status = "running" /\ tunnel' # tunnel /\ tunnel' \subseteq tunnel

\* C15: a peer's receive queue never holds more than UDP_QUEUE_SIZE packets
\* and the dispatcher does not wait for room: a packet for a full queue is
\* dropped and the queues stay as they are, any other packet is appended to
\* one queue, the other queues staying as they are, and the dispatcher goes
\* on to the next packet, whichever peer it is for.
C15_BoundedQueuesDropOnFull ==
    /\ [](\A id \in PeerIds : /\ Len(c_queue[id]) <= UDP_QUEUE_SIZE
                              /\ Len(s_queue[id]) <= UDP_QUEUE_SIZE)
    /\ [][ClientDispatchStep =>
            \/ /\ d_status' = "running"
               /\ d_dropped' = d_dropped
               /\ \E id \in PeerIds :
                      /\ Len(c_queue[id]) < UDP_QUEUE_SIZE
                      /\ c_queue' = [c_queue EXCEPT ![id] = Append(@, d_arrivals')]
            \/ /\ d_status' = "running"
               /\ d_dropped' = d_dropped \cup {d_arrivals'}
               /\ c_queue' = c_queue
               /\ \E id \in PeerIds : Len(c_queue[id]) = UDP_QUEUE_SIZE
            \/ /\ d_status' = "out_of_peer_ids"
               /\ next_peer_id = PEER_ID_MAX
               /\ c_queue' = c_queue]_vars
    /\ [][ServerDispatchStep =>
            /\ s_status' = "running"
            /\ \E datagram \in tunnel \ tunnel' :
                   \/ s_queue' = s_queue
                   \/ /\ Len(s_queue[datagram.peer_id]) < UDP_QUEUE_SIZE
                      /\ s_queue' = [s_queue EXCEPT ![datagram.peer_id] =
                                                        Append(@, datagram.data)]]_vars

\* C15 witness: the queue of peer 0 is full with packets 1 and 2, packet 3
\* was dropped, and packet 4, of another address, was queued for peer 1.
C15_Witness ==
    /\ c_queue[0] = << 1, 2 >>
    /\ d_dropped = {3}
    /\ c_queue[1] = << 4 >>
    /\ d_status = "running"

\* C18 (as claimed): a tunnel frame that fails to decode (a malformed
\* datagram, a stream without a readable peer-id preamble) costs only the
\* stream and peer it belongs to: no dispatcher loop ends because of it.
C18_DispatchersSurviveDecodeFailure ==
    /\ s_status \notin {"datagram_decode", "preamble_read"}
    /\ d_status # "datagram_decode"

(***************************************************************************)
(* Properties of the server process.                                       *)
(***************************************************************************)
\* a connection fails: its handshake, or its run_server_proxy (a step)
ConnectionFailureStep ==
    \E c \in ConnIds : conns[c] # "failed" /\ conns'[c] = "failed"

\* a peer task of a connection ends with an error (a step)
PeerTaskFailureStep ==
    /\ conns' = conns
    /\ e_lost' = e_lost
    /\ \E c \in ConnIds : conns[c] = "serving" /\ e_pending[c] > 0 /\ e_pending'[c] = 0

\* C17 (as claimed): a single peer's failure never tears down the endpoint:
\* after a failed incoming handshake, an error returned by one connection's
\* server proxy or an error in one peer task, the process is where it was
\* (still accepting if it was) and every other connection is still served.
C17_PeerFailureLeavesEndpointUp ==
    [][ConnectionFailureStep \/ PeerTaskFailureStep =>
        /\ e_pc' = e_pc
        /\ \A c \in ConnIds :
               conns[c] = "serving" => conns'[c] \in {"serving", "failed"}]_vars

\* after Ctrl-C no connection is accepted or starts to be served
NoNewAccepts ==
    [][e_pc # "serving" =>
        \A c \in ConnIds :
            conns'[c] \in {"handshaking", "serving"} => conns'[c] = conns[c]]_vars

\* when the endpoint is closed no peer task holds an unsent packet
DrainedBeforeClose ==
    [][Len(e_closed') > Len(e_closed) => \A c \in ConnIds : e_pending[c] = 0]_vars

\* the endpoint is closed once, with code 0 and reason "quit", before the
\* process waits
ClosedOnceWithQuit ==
    [](/\ Len(e_closed) <= 1
       /\ \A i \in 1 .. Len(e_closed) : e_closed[i] = [code |-> 0, reason |-> "quit"]
       /\ e_pc \in {"waiting", "terminated"} => Len(e_closed) = 1)

\* the process terminates only from its wait for wait_idle or Ctrl-C
TerminatesAfterWait ==
    [][e_pc' = "terminated" /\ e_pc # "terminated" => e_pc = "waiting"]_vars

\* C20 (as claimed): after Ctrl-C no new connection is accepted; the peer
\* tasks have sent what they held before the endpoint is closed; the
\* endpoint is closed exactly once, with code 0 and reason "quit"; and the
\* process terminates only after that, on wait_idle or a second Ctrl-C.
C20_GracefulShutdownOrder ==
    /\ NoNewAccepts
    /\ DrainedBeforeClose
    /\ ClosedOnceWithQuit
    /\ TerminatesAfterWait

(***************************************************************************)
(* Properties of the client-side stream task.                              *)
(***************************************************************************)
\* a SendChunksMessage was received for the open batch (a step)
ResponseStep == t_pc = "await_response" /\ t_response' # t_response

\* some chunk of the response does not hash to the key it was requested under
HasMismatch(batch, chunks) ==
    \E i \in 1 .. Len(batch) : blake3_hash(chunks[i]) # batch[i]

TransferEndStates ==
    {"returned_ok", "finalize_error", "hash_mismatch", "stream_error", "panicked",
     "init_error"}

\* the step in which the transfer task ends
TransferEnds == t_pc \notin TransferEndStates /\ t_pc' \in TransferEndStates

\* C21: a transfer that has fulfilled at least one Batch leaves the cache
\* marked dirty when it ends, however it ends (hash mismatch and stream error
\* included), so that the next wake-up of the saver persists the new chunks.
C21_FulfilledTransferMarksDirty ==
    [][TransferEnds /\ t_fulfilled > 0 => cache_dirty']_vars

\* the bytes of block block_id that the buffer holds: TRANSFER_BLOCK_SIZE of
\* them, or the remaining ones of a short final block
BufferBlockRest(buffer, block_id) ==
    Slice(buffer, block_id * TRANSFER_BLOCK_SIZE,
          Min({block_id * TRANSFER_BLOCK_SIZE + TRANSFER_BLOCK_SIZE, Len(buffer)}))

\* C22: once the world-data stream has ended, every TransferBlockRequest for
\* a block that starts inside the buffer is answered with a TransferBlock
\* carrying the bytes of that block, the short final block included: a
\* request that arrives is answered, and none stays in pending_requests.
C22_CompleteWorldServesEveryBlock ==
    /\ [][ClientHandlerStep /\ c_state.world_data_done /\ IsDecodableRequest(c_in')
          /\ ReadU32LE(c_in', 1) * TRANSFER_BLOCK_SIZE < Len(c_state.world_data) =>
            c_out_packets' =
                << [data |-> << PacketType_TransferBlock >> \o U32LE(ReadU32LE(c_in', 1))
                                 \o BufferBlockRest(c_state.world_data,
                                                    ReadU32LE(c_in', 1)),
                    dir |-> "ToClient"] >>]_vars
    /\ [](c_state.world_data_done =>
            \A id \in c_state.pending_requests :
                id * TRANSFER_BLOCK_SIZE >= Len(c_state.world_data))

\* the ids of the stored received blocks
ReceivedIds(st) == {st.received_blocks[i].block_id : i \in 1 .. Len(st.received_blocks)}

\* the handler of a decodable TransferBlock whose id is neither queued nor
\* in flight, in a download that goes on (a step)
StrayBlockStep ==
    /\ HandlerStep
    /\ phase = "DownloadingWorld"
    /\ phase' = "DownloadingWorld"
    /\ IsTransferBlock(in_packet')
    /\ Len(in_packet') >= 5
    /\ ReadU32LE(in_packet', 1)
           \notin state.block_request_queue \cup state.inflight_block_requests

\* C25: throughout DownloadingWorld every block id of 0 .. total_blocks - 1
\* is in exactly one of the request queue, the in-flight set and the stored
\* received blocks: the three are pairwise disjoint, no block is stored
\* twice, together they are 0 .. total_blocks - 1, and no other id is
\* requested or stored.  A TransferBlock whose id is neither queued nor in
\* flight changes none of the three.
C25_BlockIdsPartitioned ==
    /\ [](phase = "DownloadingWorld" =>
            LET queue == state.block_request_queue
                inflight == state.inflight_block_requests
                received == ReceivedIds(state)
                blocks == 0 .. (TotalBlocks(state.world_info) - 1)
            IN /\ queue \cap inflight = {}
               /\ queue \cap received = {}
               /\ inflight \cap received = {}
               /\ Cardinality(received) = Len(state.received_blocks)
               /\ queue \cup inflight \cup received = blocks
               /\ HandledPacket =>
                      \A i \in 1 .. Len(out_packets) :
                          (out_packets[i].dir = "ToServer"
                              /\ out_packets[i].data[1] = PacketType_TransferBlockRequest)
                              => ReadU32LE(out_packets[i].data, 1) \in inflight)
    /\ [][StrayBlockStep =>
            /\ state'.block_request_queue = state.block_request_queue
            /\ state'.inflight_block_requests = state.inflight_block_requests
            /\ state'.received_blocks = state.received_blocks]_vars

\* C25 witness: with a block stored and others in flight, a TransferBlock
\* with the id total_blocks, one past the last block, was handled.
C25_Witness ==
    /\ HandledPacket
    /\ phase = "DownloadingWorld"
    /\ IsTransferBlock(in_packet)
    /\ Len(in_packet) >= 5
    /\ ReadU32LE(in_packet, 1) = TotalBlocks(state.world_info)
    /\ state.received_blocks # <<>>
    /\ state.inflight_block_requests # {}

\* the server has answered every request it has answered with one chunk per
\* requested key, each hashing to its key
AnswersCorrect ==
    \A i \in 2 .. Len(stream_down) :
        /\ Len(stream_down[i].body) = Len(stream_up[i].body)
        /\ \A j \in 1 .. Len(stream_down[i].body) :
               blake3_hash(stream_down[i].body[j]) = stream_up[i].body[j]

AppendedAtMostOne(old, new) ==
    new = old \/ (Len(new) = Len(old) + 1 /\ SubSeq(new, 1, Len(old)) = old)

\* C23: the messages of a peer's tunnel stream are strictly ordered.  The
\* client's first write is the peer-id preamble, all its later ones are
\* RequestChunksMessages, written only after the WorldReadyMessage was read
\* and at most one ahead of the responses it has read.  The server reads the
\* preamble before it writes; its first message is the WorldReadyMessage,
\* written once; every later one is the SendChunksMessage for the request
\* at the same position of the client's messages: one chunk per requested
\* key, in the order of the request, each the chunk stored under that key in
\* the server's chunk map.
C23_StreamMessagesOrdered ==
    /\ [](/\ \A i \in 1 .. Len(stream_up) :
                stream_up[i].type = (IF i = 1 THEN "PeerId" ELSE "RequestChunks")
          /\ \A i \in 1 .. Len(stream_down) :
                stream_down[i].type = (IF i = 1 THEN "WorldReady" ELSE "SendChunks")
          /\ stream_down # <<>> => st_read >= 1
          /\ Len(stream_down) <= Max({Len(stream_up), 1})
          /\ Len(stream_up) > 1 => (t_read >= 1 /\ Len(stream_up) - t_read <= 1)
          /\ \A i \in 2 .. Len(stream_down) :
                stream_down[i].body =
                    [j \in 1 .. Len(stream_up[i].body) |->
                        server_chunks[stream_up[i].body[j]]])
    /\ [][/\ AppendedAtMostOne(stream_up, stream_up')
          /\ AppendedAtMostOne(stream_down, stream_down')]_vars

\* C23 witness: the preamble, the WorldReadyMessage and two requests of two
\* keys each, both answered from the chunk map and read by the client.
C23_Witness ==
    /\ stream_up = << PeerIdPreamble(0),
                      RequestChunksMessage(<< KeyOf(1), KeyOf(2) >>),
                      RequestChunksMessage(<< KeyOf(3), KeyOf(4) >>) >>
    /\ stream_down = << WorldReadyMessage, SendChunksMessage(<< 1, 2 >>),
                        SendChunksMessage(<< 3, 4 >>) >>
    /\ t_read = 3
    /\ st_pc = "serving"

\* ceil(size / TRANSFER_BLOCK_SIZE), in unbounded arithmetic
CeilBlocks(size) == (size + TRANSFER_BLOCK_SIZE - 1) \div TRANSFER_BLOCK_SIZE

\* C24: for every u32 world_size and aux_size the downloader's block count
\* is ceil(world_size / B) + ceil(aux_size / B), its pending blocks are
\* exactly 0 .. total_blocks - 1, the aux data lie at world_block_count * B
\* and end aux_size bytes later, and none of the u32 operations that compute
\* them overflows or wraps.
C24_BlockArithmeticExact ==
    /\ b_pc # "panicked"
    /\ b_pc \in {"DownloadingWorld", "Done"} =>
           LET total_blocks == CeilBlocks(b_world_info.world_size)
                                   + CeilBlocks(b_world_info.aux_size)
           IN /\ b_state.world_block_count = CeilBlocks(b_world_info.world_size)
              /\ b_state.block_request_queue \cup b_state.inflight_block_requests
                     = 0 .. (total_blocks - 1)
    /\ b_pc = "Done" =>
           b_aux_range =
               << CeilBlocks(b_world_info.world_size) * TRANSFER_BLOCK_SIZE,
                  CeilBlocks(b_world_info.world_size) * TRANSFER_BLOCK_SIZE
                      + b_world_info.aux_size >>

====
